---- MODULE Spec2Model ----
(***************************************************************************)
(* A model of deer/gfm's render engine (mod.ts): the pipeline assembler    *)
(* createProcessor, the processor cache getProcessor / clearCache /        *)
(* warmup, the entry points render / renderWithMeta, and the standalone    *)
(* extractors of parse.ts.                                                 *)
(*                                                                         *)
(* Strings the code inspects (URLs, heading text) are sequences of tokens; *)
(* an optional field is the empty set (undefined) or a singleton.          *)
(***************************************************************************)
EXTENDS Integers, Sequences, FiniteSets, TLC

VARIABLES
    processorCache,  \* the Map of mod.ts, in insertion order: <<[key, pipe, used], ...>>
    created,         \* how many times createProcessor has been entered
    calls,           \* every call that reached getProcessor, in order, and how it ended
    warmed,          \* how many of the start-up warmups have run
    ops,             \* requests made after start-up
    run              \* one pipeline execution, stage by stage (specification SpecPipe)

vars == <<processorCache, created, calls, warmed, ops, run>>

----------------------------------------------------------------------------
\* Bounds of the model.

\* requests made after the start-up warmups
MaxOps == 2
\* calls that may be suspended in process() at the same time
MaxInFlight == 1
\* top-level nodes of a document
MaxNodes == 2

----------------------------------------------------------------------------
\* Optional values: `x?: T`.

Undefined == {}

Some(v) == {v}

Get(x) == CHOOSE v \in x : TRUE

\* x ?? d
OrElse(x, d) == IF x = Undefined THEN d ELSE Get(x)

\* the truthiness test `if (x)` of an optional boolean
Truthy(x) == x = Some(TRUE)

----------------------------------------------------------------------------
\* URLs.  "https://example.com/docs/" is <<"https://", "example.com", "/", "docs", "/">>.

SchemeTokens == {"http://", "https://", "data:", "mailto:", "tel:", "javascript:", "vbscript:"}

\* `new URL(s)` without a base succeeds only on an absolute URL
UrlParses(s) == Len(s) >= 2 /\ s[1] \in SchemeTokens

BadBaseUrlError(baseUrl) == [name |-> "Invalid baseUrl", value |-> baseUrl]

NoError == [name |-> "", value |-> <<>>]

\* validateBaseUrl guarding with `if (!baseUrl) return`: "" passes unvalidated
validateBaseUrlTruthy(baseUrl) ==
    IF baseUrl = Undefined \/ Get(baseUrl) = <<>> THEN NoError
    ELSE IF UrlParses(Get(baseUrl)) THEN NoError
    ELSE BadBaseUrlError(Get(baseUrl))

\* validateBaseUrl: the error it throws, or NoError
validateBaseUrl(baseUrl) ==
    IF baseUrl = Undefined THEN NoError
    ELSE IF UrlParses(Get(baseUrl)) THEN NoError
    ELSE BadBaseUrlError(Get(baseUrl))

----------------------------------------------------------------------------
\* Plugin specs.  A PluginSpec is a function or a [function, ...settings] tuple;
\* here a record of the function's name, its settings and what its transformer
\* does to a tree ("does" is only read when the stage runs).

Plugin(fn, settings, does) == [fn |-> fn, settings |-> settings, does |-> does]

\* caller-supplied plugins used as inputs
noopPlugin == Plugin("noopPlugin", "", "noop")
throwingRemark == Plugin("throwingPlugin", "remark plugin exploded", "throw")
throwingRehype == Plugin("pluginWithOpts", "configured to fail", "throw")
insertScript == Plugin("insertScript", "", "insert-script")
emptyTreePlugin == Plugin("emptyTreePlugin", "", "empty-tree")

\* the highlighter specs of the two entry points, and a caller's variant of one
lowlightPlugin == Plugin("rehypeHighlight", "detect:true", "highlight:hljs")
lowlightNoDetect == Plugin("rehypeHighlight", "detect:false", "highlight:hljs-nodetect")
starryNightPlugin == Plugin("rehypeStarryNight", "starryNight", "highlight:pl")

\* The math bundle exported by math.ts.
math ==
    [ remarkPlugin |-> Plugin("remarkMath", "", "math-parse"),
      rehypePlugin |-> Plugin("rehypeKatex", "", "math-render:katex"),
      spanClassPrefixes |-> {"katex", "mord", "mbin", "mrel", "mopen", "mclose",
                             "mpunct", "minner", "mop", "mspace", "msupsub",
                             "vlist", "strut", "pstrut", "frac-line", "sqrt",
                             "base", "sizing", "reset-size", "size", "mtight",
                             "mathnormal", "mathit", "mathbf", "nulldelimiter",
                             "delimsizing", "delimcenter", "accent", "stretchy"},
      spanAttributes |-> {"style", "ariaHidden"},
      tagNames |-> {"math", "semantics", "mrow", "mi", "mn", "mo", "msup", "msub",
                    "mfrac", "msqrt", "mroot", "mtext", "mspace", "mtable", "mtr",
                    "mtd", "annotation"},
      tagAttributes |-> {<<"math", "xmlns">>, <<"math", "display">>,
                         <<"annotation", "encoding">>} ]

\* A bundle a caller writes against the MathPlugins interface: another
\* renderer, which asks for the tags and attributes its output uses.
\* (MathJax carries TeX source in <script type="math/tex"> elements.)
scriptMath ==
    [ remarkPlugin |-> Plugin("remarkMath", "", "math-parse"),
      rehypePlugin |-> Plugin("rehypeMathjax", "", "math-render:mathjax"),
      spanClassPrefixes |-> {"MathJax"},
      spanAttributes |-> {"style"},
      tagNames |-> {"script"},
      tagAttributes |-> {<<"script", "type">>} ]

\* The bundle of math.ts with remark-math told to leave single dollars alone:
\* remarkPlugin: [remarkMath, { singleDollarTextMath: false }].
doubleDollarMath ==
    [math EXCEPT !.remarkPlugin =
        Plugin("remarkMath", "singleDollarTextMath:false", "math-parse:double")]

\* Another bundle written against the MathPlugins interface: a renderer that
\* embeds its output as framed documents and asks for what that needs.
frameMath ==
    [ remarkPlugin |-> Plugin("remarkMath", "", "math-parse"),
      rehypePlugin |-> Plugin("rehypeMathFrame", "", "math-render:frame"),
      spanClassPrefixes |-> {},
      spanAttributes |-> {},
      tagNames |-> {"iframe"},
      tagAttributes |-> {<<"iframe", "srcdoc">>} ]

----------------------------------------------------------------------------
\* RenderOptions.

DefaultOpts ==
    [ baseUrl |-> Undefined, highlighter |-> Undefined, math |-> Undefined,
      allowIframes |-> Undefined, disableHtmlSanitization |-> Undefined,
      allowEmoji |-> Undefined, lineNumbers |-> Undefined, inline |-> Undefined,
      remarkPlugins |-> Undefined, rehypePlugins |-> Undefined ]

docsUrl == <<"https://", "example.com", "/", "docs">>
docsUrlSlash == <<"https://", "example.com", "/", "docs", "/">>
emptyUrl == <<>>
notAUrl == <<"not a url">>
brokenUrl == <<":", "//", "broken">>

\* opts.remarkPlugins?.length || opts.rehypePlugins?.length
HasCustomPlugins(opts) ==
    \/ (opts.remarkPlugins /= Undefined /\ Len(Get(opts.remarkPlugins)) > 0)
    \/ (opts.rehypePlugins /= Undefined /\ Len(Get(opts.rehypePlugins)) > 0)

getHighlighterName(highlighter) ==
    IF highlighter = Undefined THEN "none" ELSE Get(highlighter).fn

NoKey == [cacheable |-> FALSE]

\* getCacheKey without its custom-plugin test
getCacheKeyIgnoringPlugins(opts) ==
    [ cacheable |-> TRUE,
      highlighter |-> getHighlighterName(opts.highlighter),
      math |-> (opts.math /= Undefined),
      allowIframes |-> OrElse(opts.allowIframes, FALSE),
      disableHtmlSanitization |-> OrElse(opts.disableHtmlSanitization, FALSE),
      allowEmoji |-> OrElse(opts.allowEmoji, TRUE),
      baseUrl |-> opts.baseUrl,
      inline |-> OrElse(opts.inline, FALSE),
      lineNumbers |-> OrElse(opts.lineNumbers, FALSE) ]

\* getCacheKey: the object handed to JSON.stringify, or NoKey for null
getCacheKey(opts) ==
    IF HasCustomPlugins(opts) THEN NoKey
    ELSE [ cacheable |-> TRUE,
           highlighter |-> getHighlighterName(opts.highlighter),
           math |-> (opts.math /= Undefined),
           allowIframes |-> OrElse(opts.allowIframes, FALSE),
           disableHtmlSanitization |-> OrElse(opts.disableHtmlSanitization, FALSE),
           allowEmoji |-> OrElse(opts.allowEmoji, TRUE),
           baseUrl |-> opts.baseUrl,
           inline |-> OrElse(opts.inline, FALSE),
           lineNumbers |-> OrElse(opts.lineNumbers, FALSE) ]

----------------------------------------------------------------------------
\* Trees.  One record shape serves mdast and hast nodes: `type` is the node
\* type ("yaml", "heading", "paragraph", "code", "html" in mdast; "element",
\* "raw" in hast; "text" in both), `text` the value of a literal node as
\* tokens, `props` a set of <<name, value>> with value a token sequence.

Node(type, tag, depth, props, text, kids) ==
    [type |-> type, tag |-> tag, depth |-> depth, props |-> props,
     text |-> text, kids |-> kids]

Text(tokens) == Node("text", "", 0, {}, tokens, <<>>)

Element(tag, props, kids) == Node("element", tag, 0, props, <<>>, kids)

Yaml(value) == Node("yaml", "", 0, {}, <<value>>, <<>>)

Heading(depth, tokens) == Node("heading", "", depth, {}, <<>>, <<Text(tokens)>>)

Paragraph(tokens) == Node("paragraph", "", 0, {}, <<>>, <<Text(tokens)>>)

\* a fenced code block; `lang` is "" when the fence names no language
Code(lang, tokens) == Node("code", lang, 0, {}, tokens, <<>>)

\* a block of raw HTML holding one element
Html(tag, props, tokens) == Node("html", tag, 0, props, tokens, <<>>)

RECURSIVE ConcatAll(_)
\* the concatenation of a sequence of sequences
ConcatAll(ss) == IF ss = <<>> THEN <<>> ELSE Head(ss) \o ConcatAll(Tail(ss))

RECURSIVE toString(_)
\* hast-util-to-string / mdast-util-to-string: all descendant text, in order
toString(node) ==
    IF node.type = "text" THEN node.text
    ELSE ConcatAll([i \in 1..Len(node.kids) |-> toString(node.kids[i])])

Prop(node, name) == {pr[2] : pr \in {q \in node.props : q[1] = name}}

WithProp(node, name, value) ==
    [node EXCEPT !.props = {q \in @ : q[1] /= name} \cup {<<name, value>>}]

----------------------------------------------------------------------------
\* The state a pipeline run carries: the tree, vfile.data and a thrown error.

ProcessState(tree) ==
    [tree |-> tree, toc |-> Undefined, frontmatter |-> Undefined, error |-> NoError]

Failed(ps) == ps.error /= NoError

\* @std/yaml parse on the YAML sources the documents use
parseYaml(value) ==
    CASE value = "title: Hello" -> [threw |-> FALSE, value |-> "{title:Hello}"]
      [] value = "" -> [threw |-> FALSE, value |-> "null"]
      [] OTHER -> [threw |-> TRUE, value |-> "null"]

\* the first node of the given type among the top-level nodes, or 0
FirstOfType(tree, type) ==
    IF \E i \in 1..Len(tree) : tree[i].type = type
    THEN CHOOSE i \in 1..Len(tree) :
            /\ tree[i].type = type
            /\ \A j \in 1..(i - 1) : tree[j].type /= type
    ELSE 0

RECURSIVE FirstParsed(_)
\* the value of the first YAML node that parses, if any
FirstParsed(tree) ==
    IF tree = <<>> THEN Undefined
    ELSE IF Head(tree).type = "yaml" /\ ~parseYaml(Head(tree).text[1]).threw
         THEN Some(parseYaml(Head(tree).text[1]).value)
    ELSE FirstParsed(Tail(tree))

\* remarkExtractFrontmatter with the `break` inside the try: a YAML block
\* that fails to parse lets the loop go on to the next one
remarkExtractFrontmatterNoBreak(ps) ==
    [ps EXCEPT !.frontmatter = FirstParsed(ps.tree)]

\* remarkExtractFrontmatter
remarkExtractFrontmatter(ps) ==
    LET i == FirstOfType(ps.tree, "yaml") IN
    IF i = 0 THEN ps
    ELSE LET r == parseYaml(ps.tree[i].text[1]) IN
         IF r.threw THEN ps ELSE [ps EXCEPT !.frontmatter = Some(r.value)]

\* emojiMap.get(name) ?? match, on one `:name:` token
emojiMap(token) == IF token = ":wave:" THEN "U+1F44B" ELSE token

RECURSIVE remarkEmojify(_)
\* remarkEmojify's transformer: rewrites the value of every text node
remarkEmojify(nodes) ==
    [i \in 1..Len(nodes) |->
        IF nodes[i].type = "text"
        THEN [nodes[i] EXCEPT !.text = [k \in 1..Len(@) |-> emojiMap(@[k])]]
        ELSE [nodes[i] EXCEPT !.kids = remarkEmojify(@)]]

RECURSIVE remarkMath(_)
\* remark-math: a `$...$` run of text becomes an inlineMath node
remarkMath(nodes) ==
    [i \in 1..Len(nodes) |->
        IF nodes[i].type = "text" /\ nodes[i].text = <<"$x$">>
        THEN Node("inlineMath", "", 0, {}, <<"x">>, <<>>)
        ELSE [nodes[i] EXCEPT !.kids = remarkMath(@)]]

----------------------------------------------------------------------------
\* github-slugger.

\* lower-case, drop what is neither a letter, a digit, "-" nor "_"
SlugToken(token) ==
    CASE token = "Test" -> "test"
      [] token = "Hello" -> "hello"
      [] token = "Test-1" -> "test-1"
      [] token = ":wave:" -> "wave"
      [] token = "$x$" -> "x"
      [] token = "U+1F44B" -> ""
      [] OTHER -> token

RECURSIVE SlugText(_)
\* the tokens are separated by single spaces, each of which becomes "-"
SlugText(tokens) ==
    IF tokens = <<>> THEN ""
    ELSE IF Len(tokens) = 1 THEN SlugToken(tokens[1])
    ELSE SlugToken(tokens[1]) \o "-" \o SlugText(Tail(tokens))

Seen(occurrences, slug) == \E e \in occurrences : e[1] = slug

Count(occurrences, slug) == (CHOOSE e \in occurrences : e[1] = slug)[2]

SetCount(occurrences, slug, n) ==
    {e \in occurrences : e[1] /= slug} \cup {<<slug, n>>}

\* Suffixed with an `if` for the `while`: the suffixed slug is handed out
\* without looking whether it was given before
SuffixedOnce(occurrences, original) ==
    LET n == Count(occurrences, original) + 1
        occ == SetCount(occurrences, original, n)
        result == original \o "-" \o ToString(n)
    IN [slug |-> result, occurrences |-> SetCount(occ, result, 0)]

RECURSIVE Suffixed(_, _)
\* the `while (own.call(occurrences, result))` loop of GitHubSlugger.slug
Suffixed(occurrences, original) ==
    LET n == Count(occurrences, original) + 1
        occ == SetCount(occurrences, original, n)
        result == original \o "-" \o ToString(n)
    IN IF Seen(occ, result) THEN Suffixed(occ, original)
       ELSE [slug |-> result, occurrences |-> SetCount(occ, result, 0)]

\* GitHubSlugger.slug: the slug and the slugger's new state
slug(occurrences, tokens) ==
    LET original == SlugText(tokens) IN
    IF Seen(occurrences, original) THEN Suffixed(occurrences, original)
    ELSE [slug |-> original, occurrences |-> SetCount(occurrences, original, 0)]

----------------------------------------------------------------------------
\* mdast -> hast.

RECURSIVE remarkRehype(_)
\* remark-rehype with allowDangerousHtml: yaml nodes produce nothing, raw HTML
\* is carried along as "raw" nodes
remarkRehype(nodes) ==
    IF nodes = <<>> THEN <<>>
    ELSE LET n == Head(nodes)
             kids == remarkRehype(n.kids)
             out ==
               CASE n.type = "yaml" -> <<>>
                 [] n.type = "heading" -> <<Element("h" \o ToString(n.depth), {}, kids)>>
                 [] n.type = "paragraph" -> <<Element("p", {}, kids)>>
                 [] n.type = "inlineMath" ->
                      <<Element("code", {<<"className", <<"language-", "math">>>>,
                                         <<"className", <<"math-inline">>>>},
                                <<Text(n.text)>>)>>
                 [] n.type = "code" ->
                      <<Element("pre", {},
                          <<Element("code",
                              IF n.tag = "" THEN {}
                              ELSE {<<"className", <<"language-", n.tag>>>>},
                              <<Text(n.text)>>)>>)>>
                 [] n.type = "footnoteReference" ->
                      <<Element("sup", {},
                          <<Element("a", {<<"href", <<"#", "user-content-fn-" \o n.tag>>>>,
                                          <<"id", <<"user-content-fnref-" \o n.tag>>>>,
                                          <<"dataFootnoteRef", <<"">>>>},
                                    <<Text(<<n.tag>>)>>)>>)>>
                 [] n.type = "html" -> <<[n EXCEPT !.type = "raw", !.kids = kids]>>
                 [] OTHER -> <<n>>
         IN out \o remarkRehype(Tail(nodes))

RECURSIVE FootnoteCalls(_)
\* the identifiers of the footnotes referenced, in document order
FootnoteCalls(nodes) ==
    IF nodes = <<>> THEN <<>>
    ELSE (IF Head(nodes).type = "footnoteReference" THEN <<Head(nodes).tag>> ELSE <<>>)
         \o FootnoteCalls(Head(nodes).kids) \o FootnoteCalls(Tail(nodes))

\* mdast-util-to-hast's footer: the section of the footnotes referenced, each
\* item with a link back to its reference; ids carry "user-content-"
Footer(nodes) ==
    LET ids == FootnoteCalls(nodes) IN
    IF ids = <<>> THEN <<>>
    ELSE <<Element("section", {<<"dataFootnotes", <<"">>>>, <<"className", <<"footnotes">>>>},
             <<Element("h2", {<<"id", <<"footnote-label">>>>, <<"className", <<"sr-only">>>>},
                       <<Text(<<"Footnotes">>)>>),
               Element("ol", {},
                 [k \in 1..Len(ids) |->
                    Element("li", {<<"id", <<"user-content-fn-" \o ids[k]>>>>},
                      <<Element("p", {},
                          <<Text(<<"Note.">>),
                            Element("a", {<<"href", <<"#", "user-content-fnref-" \o ids[k]>>>>,
                                          <<"dataFootnoteBackref", <<"">>>>,
                                          <<"className", <<"data-footnote-backref">>>>},
                                    <<Text(<<"back">>)>>)>>)>>)])>>)>>

\* the HTML parser lower-cases tag names
LowerTag(tag) == IF tag = "ScRiPt" THEN "script" ELSE tag

RECURSIVE rehypeRaw(_)
\* rehype-raw: re-parses the raw nodes into elements
rehypeRaw(nodes) ==
    [i \in 1..Len(nodes) |->
        IF nodes[i].type = "raw"
        THEN Element(LowerTag(nodes[i].tag), nodes[i].props,
                     (IF nodes[i].text = <<>> THEN <<>> ELSE <<Text(nodes[i].text)>>)
                     \o rehypeRaw(nodes[i].kids))
        ELSE [nodes[i] EXCEPT !.kids = rehypeRaw(@)]]

\* hast-util-heading-rank: 1..6 for h1..h6, 0 (for undefined) otherwise
headingRank(node) ==
    IF node.type /= "element" THEN 0
    ELSE CASE node.tag = "h1" -> 1 [] node.tag = "h2" -> 2 [] node.tag = "h3" -> 3
           [] node.tag = "h4" -> 4 [] node.tag = "h5" -> 5 [] node.tag = "h6" -> 6
           [] OTHER -> 0

HasId(node) == Prop(node, "id") /= {}

IdOf(node) == (CHOOSE v \in Prop(node, "id") : TRUE)[1]

RECURSIVE SlugNodes(_, _)
\* rehype-slug's visit, in document order, threading the slugger's state:
\* a heading without an id gets slugs.slug(toString(node))
SlugNodes(nodes, occurrences) ==
    IF nodes = <<>> THEN [nodes |-> <<>>, occurrences |-> occurrences]
    ELSE LET n == Head(nodes)
             hit == headingRank(n) > 0 /\ ~HasId(n)
             r == IF hit THEN slug(occurrences, toString(n))
                  ELSE [slug |-> "", occurrences |-> occurrences]
             n1 == IF hit THEN WithProp(n, "id", <<r.slug>>) ELSE n
             inner == SlugNodes(n1.kids, r.occurrences)
             rest == SlugNodes(Tail(nodes), inner.occurrences)
         IN [nodes |-> <<[n1 EXCEPT !.kids = inner.nodes]>> \o rest.nodes,
             occurrences |-> rest.occurrences]

\* rehype-slug: the slugger is reset at the start of every run
rehypeSlug(nodes) == SlugNodes(nodes, {}).nodes

TocEntry(text, depth, slugOf) == [text |-> text, depth |-> depth, slug |-> slugOf]

RECURSIVE TocOf(_)
\* the visit of rehypeExtractToc: an entry per heading that has an id
TocOf(nodes) ==
    IF nodes = <<>> THEN <<>>
    ELSE LET n == Head(nodes) IN
         (IF headingRank(n) > 0 /\ HasId(n)
          THEN <<TocEntry(toString(n), headingRank(n), IdOf(n))>> ELSE <<>>)
         \o TocOf(n.kids) \o TocOf(Tail(nodes))

\* rehypeExtractToc
rehypeExtractToc(ps) == [ps EXCEPT !.toc = Some(TocOf(ps.tree))]

\* the anchorIcon constant: an svg holding one path
anchorIcon ==
    Element("svg", {<<"className", <<"octicon">>>>, <<"className", <<"octicon-link">>>>,
                    <<"viewBox", <<"0 0 16 16">>>>, <<"width", <<"16">>>>,
                    <<"height", <<"16">>>>, <<"ariaHidden", <<"true">>>>},
            <<Element("path", {<<"fillRule", <<"evenodd">>>>, <<"d", <<"M7.775">>>>}, <<>>)>>)

RECURSIVE rehypeAutolinkHeadings(_)
\* rehype-autolink-headings, behavior "prepend": every heading with a
\* non-empty id gets a leading <a href="#id"> holding the icon
rehypeAutolinkHeadings(nodes) ==
    [i \in 1..Len(nodes) |->
        LET n == nodes[i] IN
        IF headingRank(n) > 0 /\ HasId(n) /\ IdOf(n) /= ""
        THEN [n EXCEPT !.kids =
                <<Element("a", {<<"href", <<"#", IdOf(n)>>>>, <<"ariaHidden", <<"true">>>>,
                                <<"tabIndex", <<"-1">>>>, <<"className", <<"anchor">>>>},
                          <<anchorIcon>>)>> \o @]
        ELSE [n EXCEPT !.kids = rehypeAutolinkHeadings(@)]]

----------------------------------------------------------------------------
\* URL resolution.

Last(seq) == seq[Len(seq)]

\* the prefixes resolveUrl leaves alone
AbsolutePrefixes == {"http://", "https://", "//", "#", "data:", "mailto:", "tel:"}

\* `new URL(rel, base)` needs a base that can be one: http(s) here
CanBeBase(base) == UrlParses(base) /\ base[1] \in {"http://", "https://"}

\* the origin of an http(s) URL: its scheme and host
Origin(base) == SubSeq(base, 1, 2)

RECURSIVE Merge(_, _)
\* `new URL(rel, base).href` for a base ending in "/": "./" stays in the
\* directory, "../" leaves it, an absolute URL replaces the base
Merge(base, rel) ==
    IF rel = <<>> THEN base
    ELSE IF rel[1] \in SchemeTokens THEN rel
    ELSE IF rel[1] = "./" THEN Merge(base, Tail(rel))
    ELSE IF rel[1] = "../"
         THEN Merge(IF Len(base) > 3 THEN SubSeq(base, 1, Len(base) - 2) ELSE base,
                    Tail(rel))
    ELSE base \o rel

\* resolveUrl without the normalisation of the base to end with "/": the last
\* segment of the base is then replaced instead of kept
resolveUrlNoSlash(url, baseUrl) ==
    IF url = <<>> \/ url[1] \in AbsolutePrefixes THEN url
    ELSE LET dir == IF Len(baseUrl) > 3 /\ Last(baseUrl) /= "/"
                    THEN SubSeq(baseUrl, 1, Len(baseUrl) - 1)
                    ELSE IF Len(baseUrl) = 2 THEN baseUrl \o <<"/">> ELSE baseUrl
         IN IF url[1] = "/"
            THEN IF CanBeBase(baseUrl) THEN Origin(baseUrl) \o url ELSE url
            ELSE IF CanBeBase(baseUrl) THEN Merge(dir, url) ELSE url

resolveUrl(url, baseUrl) ==
    IF url = <<>> \/ url[1] \in AbsolutePrefixes THEN url
    ELSE LET base == IF baseUrl /= <<>> /\ Last(baseUrl) = "/" THEN baseUrl
                     ELSE baseUrl \o <<"/">>
         IN IF url[1] = "/"
            THEN IF CanBeBase(base) THEN Origin(base) \o url ELSE url
            ELSE IF CanBeBase(base) THEN Merge(base, url) ELSE url

\* UrlAttribute without the branch for the source element
UrlAttributeNoSource(node) ==
    CASE node.tag = "a" -> "href"
      [] node.tag \in {"img", "video", "audio"} -> "src"
      [] OTHER -> ""

\* the attribute rehypeResolveUrls rewrites on an element, or "" for none
UrlAttribute(node) ==
    CASE node.tag = "a" -> "href"
      [] node.tag \in {"img", "video", "audio", "source"} -> "src"
      [] OTHER -> ""

RECURSIVE ResolveNodes(_, _)
ResolveNodes(nodes, baseUrl) ==
    [i \in 1..Len(nodes) |->
        LET n == nodes[i]
            a == IF n.type = "element" THEN UrlAttribute(n) ELSE ""
            n1 == IF a /= "" /\ Prop(n, a) /= {}
                  THEN WithProp(n, a, resolveUrl(CHOOSE v \in Prop(n, a) : TRUE, baseUrl))
                  ELSE n
        IN [n1 EXCEPT !.kids = ResolveNodes(@, baseUrl)]]

\* rehypeResolveUrls: nothing without a (truthy) baseUrl
rehypeResolveUrls(nodes, baseUrl) ==
    IF baseUrl = Undefined \/ Get(baseUrl) = <<>> THEN nodes
    ELSE ResolveNodes(nodes, Get(baseUrl))

----------------------------------------------------------------------------
\* Highlighting and math rendering (the plugins the options carry).

HasClass(node, value) == <<"className", value>> \in node.props

\* the language-* class of a code element as <<"language-", lang>>, or <<>>
LanguageClass(node) ==
    IF \E q \in node.props : q[1] = "className" /\ Len(q[2]) = 2 /\ q[2][1] = "language-"
    THEN (CHOOSE q \in node.props :
             q[1] = "className" /\ Len(q[2]) = 2 /\ q[2][1] = "language-")[2]
    ELSE <<>>

\* what a highlighter makes of a code element's text: the first token
\* becomes a classed span, the rest stays text
Highlighted(tokens, prefix) ==
    IF tokens = <<>> THEN <<>>
    ELSE <<Element("span", {<<"className", <<prefix, "k">>>>}, <<Text(<<tokens[1]>>)>>)>>
         \o (IF Len(tokens) = 1 THEN <<>> ELSE <<Text(Tail(tokens))>>)

\* does this highlighter touch a code element?  rehype-highlight with
\* detect:true takes every block, the others only those naming a language
Highlights(plugin, code) ==
    \/ plugin.settings = "detect:true"
    \/ LanguageClass(code) /= <<>>

RECURSIVE highlight(_, _, _)
highlight(nodes, parentTag, plugin) ==
    [i \in 1..Len(nodes) |->
        LET n == nodes[i] IN
        IF n.type = "element" /\ n.tag = "code" /\ parentTag = "pre" /\ Highlights(plugin, n)
        THEN [n EXCEPT
                !.kids = Highlighted(toString(n),
                                     IF plugin.fn = "rehypeHighlight" THEN "hljs-" ELSE "pl-"),
                !.props = IF plugin.fn = "rehypeHighlight"
                          THEN @ \cup {<<"className", <<"hljs">>>>} ELSE @]
        ELSE [n EXCEPT !.kids = highlight(@, n.tag, plugin)]]

RECURSIVE renderMath(_, _)
\* the math bundle's rehype plugin: rehype-katex emits span.katex > math,
\* the MathJax one a <script type="math/tex">
renderMath(nodes, plugin) ==
    [i \in 1..Len(nodes) |->
        LET n == nodes[i] IN
        IF n.type = "element" /\ n.tag = "code" /\ HasClass(n, <<"math-inline">>)
        THEN IF plugin.fn = "rehypeKatex"
             THEN Element("span", {<<"className", <<"katex">>>>},
                          <<Element("math", {<<"xmlns", <<"http://", "www.w3.org">>>>}, n.kids)>>)
             ELSE Element("script", {<<"type", <<"math/tex">>>>}, n.kids)
        ELSE [n EXCEPT !.kids = renderMath(@, plugin)]]

----------------------------------------------------------------------------
\* Code blocks.

IsCode(node) == node.type = "element" /\ node.tag = "code"

HasCodeChild(node) == \E i \in 1..Len(node.kids) : IsCode(node.kids[i])

\* node.children.find(...): the first code child
CodeChildIndex(node) ==
    CHOOSE i \in 1..Len(node.kids) :
        IsCode(node.kids[i]) /\ \A j \in 1..(i - 1) : ~IsCode(node.kids[j])

RECURSIVE rehypeCodeBlocksAnyLanguage(_)
\* rehypeCodeBlocks testing `langClass` where the code tests `language`: a
\* header also for the class "language-" that names no language
rehypeCodeBlocksAnyLanguage(nodes) ==
    [i \in 1..Len(nodes) |->
        LET n == nodes[i] IN
        IF n.type = "element" /\ n.tag = "pre" /\ HasCodeChild(n)
        THEN LET langClass == LanguageClass(n.kids[CodeChildIndex(n)])
                 header ==
                   IF langClass = <<>> THEN <<>>
                   ELSE <<Element("div", {<<"className", <<"code-header">>>>},
                            <<Element("span", {<<"className", <<"code-lang">>>>},
                                      <<Text(<<langClass[2]>>)>>)>>)>>
             IN Element("div", {<<"className", <<"highlight">>>>}, header \o <<n>>)
        ELSE [n EXCEPT !.kids = rehypeCodeBlocksAnyLanguage(@)]]

RECURSIVE rehypeCodeBlocks(_)
\* rehypeCodeBlocks: a pre with a code child is replaced, in place, by
\* div.highlight > [div.code-header > span.code-lang]? pre, and not descended
\* into (SKIP); `if (language)` is false for the class "language-"
rehypeCodeBlocks(nodes) ==
    [i \in 1..Len(nodes) |->
        LET n == nodes[i] IN
        IF n.type = "element" /\ n.tag = "pre" /\ HasCodeChild(n)
        THEN LET langClass == LanguageClass(n.kids[CodeChildIndex(n)])
                 header ==
                   IF langClass = <<>> \/ langClass[2] = "" THEN <<>>
                   ELSE <<Element("div", {<<"className", <<"code-header">>>>},
                            <<Element("span", {<<"className", <<"code-lang">>>>},
                                      <<Text(<<langClass[2]>>)>>)>>)>>
             IN Element("div", {<<"className", <<"highlight">>>>}, header \o <<n>>)
        ELSE [n EXCEPT !.kids = rehypeCodeBlocks(@)]]

----------------------------------------------------------------------------
\* Line numbers.  A newline is the token "\n".

RECURSIVE SplitSkippingEmpty(_)
\* a split that leaves out the empty segments
SplitSkippingEmpty(tokens) ==
    IF tokens = <<>> THEN <<>>
    ELSE IF Head(tokens) = "\n" THEN SplitSkippingEmpty(Tail(tokens))
    ELSE LET k == CHOOSE i \in 1..Len(tokens) :
                     /\ \A j \in 1..i : tokens[j] /= "\n"
                     /\ (i = Len(tokens) \/ tokens[i + 1] = "\n")
         IN <<SubSeq(tokens, 1, k)>> \o SplitSkippingEmpty(SubSeq(tokens, k + 1, Len(tokens)))

RECURSIVE Split(_)
\* value.split("\n"): the segments between newlines, empty ones included
Split(tokens) ==
    IF \A i \in 1..Len(tokens) : tokens[i] /= "\n" THEN <<tokens>>
    ELSE LET k == CHOOSE i \in 1..Len(tokens) :
                     tokens[i] = "\n" /\ \A j \in 1..(i - 1) : tokens[j] /= "\n"
         IN <<SubSeq(tokens, 1, k - 1)>> \o Split(SubSeq(tokens, k + 1, Len(tokens)))

\* push a node onto the last line
PushLast(lines, node) ==
    [lines EXCEPT ![Len(lines)] = Append(@, node)]

RECURSIVE AddParts(_, _, _, _)
\* the `for (let i = 0; i < parts.length; i++)` loops: every part after the
\* first opens a line, every non-empty part is pushed, wrapped by `wrap`
AddParts(lines, parts, i, child) ==
    IF i > Len(parts) THEN lines
    ELSE LET opened == IF i > 1 THEN Append(lines, <<>>) ELSE lines
             piece == IF child.type = "text" THEN Text(parts[i])
                      ELSE Element(child.tag, child.props, <<Text(parts[i])>>)
             pushed == IF parts[i] /= <<>> THEN PushLast(opened, piece) ELSE opened
         IN AddParts(pushed, parts, i + 1, child)

RECURSIVE LinesOf(_, _)
\* the loop over code.children
LinesOf(children, lines) ==
    IF children = <<>> THEN lines
    ELSE LET child == Head(children)
             text == toString(child)
             next ==
               IF child.type = "text" THEN AddParts(lines, Split(child.text), 1, child)
               ELSE IF child.type = "element" /\ (\E i \in 1..Len(text) : text[i] = "\n")
                    THEN AddParts(lines, Split(text), 1, child)
               ELSE PushLast(lines, child)
         IN LinesOf(Tail(children), next)

\* LineSpans without the `lines.pop()` of the trailing empty line
LineSpansKeepLast(code) ==
    LET lines == LinesOf(code.kids, <<<<>>>>)
    IN [i \in 1..Len(lines) |->
          Element("span", {<<"className", <<"line">>>>}, lines[i] \o <<Text(<<"\n">>)>>)]

\* the new children of a code element: one span.line per line
LineSpans(code) ==
    LET all == LinesOf(code.kids, <<<<>>>>)
        lines == IF Len(all) > 1 /\ all[Len(all)] = <<>>
                 THEN SubSeq(all, 1, Len(all) - 1) ELSE all
    IN [i \in 1..Len(lines) |->
          Element("span", {<<"className", <<"line">>>>}, lines[i] \o <<Text(<<"\n">>)>>)]

RECURSIVE rehypeLineNumbers(_)
\* rehypeLineNumbers: every pre with a code child, not descended into
rehypeLineNumbers(nodes) ==
    [i \in 1..Len(nodes) |->
        LET n == nodes[i] IN
        IF n.type = "element" /\ n.tag = "pre" /\ HasCodeChild(n)
        THEN LET c == CodeChildIndex(n) IN
             WithProp([n EXCEPT !.kids[c].kids = LineSpans(n.kids[c])],
                      "dataLineNumbers", <<>>)
        ELSE [n EXCEPT !.kids = rehypeLineNumbers(@)]]

RECURSIVE rehypeUnwrapParagraphsNoRevisit(_)
\* rehypeUnwrapParagraphs resuming after the children it spliced in instead
\* of at `index`: those children are never visited in their new parent
rehypeUnwrapParagraphsNoRevisit(nodes) ==
    IF nodes = <<>> THEN <<>>
    ELSE LET n == Head(nodes) IN
         IF n.type = "element" /\ n.tag = "p"
         THEN [j \in 1..Len(n.kids) |->
                 [n.kids[j] EXCEPT !.kids = rehypeUnwrapParagraphsNoRevisit(@)]]
              \o rehypeUnwrapParagraphsNoRevisit(Tail(nodes))
         ELSE <<[n EXCEPT !.kids = rehypeUnwrapParagraphsNoRevisit(@)]>>
              \o rehypeUnwrapParagraphsNoRevisit(Tail(nodes))

RECURSIVE rehypeUnwrapParagraphs(_)
\* rehypeUnwrapParagraphs: a p is spliced out for its children and the visit
\* resumes at the same index, so at the first of those children (the walk
\* through the children of the detached p before that splices only into
\* nodes the resumed visit flattens again)
rehypeUnwrapParagraphs(nodes) ==
    IF nodes = <<>> THEN <<>>
    ELSE LET n == Head(nodes) IN
         IF n.type = "element" /\ n.tag = "p"
         THEN rehypeUnwrapParagraphs(n.kids \o Tail(nodes))
         ELSE <<[n EXCEPT !.kids = rehypeUnwrapParagraphs(@)]>>
              \o rehypeUnwrapParagraphs(Tail(nodes))

----------------------------------------------------------------------------
\* The sanitization schema.  `attributes` is a set of <<tag, property, pattern>>
\* ("*" for every tag); a pattern [prefix, more] accepts the values that start
\* with `prefix` and go on by nothing ("none"), something ("some") or anything
\* ("any").  `protocols` is a set of <<property, scheme>>.

AnyValue == [prefix |-> <<>>, more |-> "any"]

Exactly(value) == [prefix |-> value, more |-> "none"]

StartsWith(value) == [prefix |-> value, more |-> "any"]

\* rehype-sanitize's defaultSchema (GitHub's), on the tags and properties the
\* model's trees use
defaultSchema ==
    [ tagNames |-> {"a", "blockquote", "code", "del", "div", "h1", "h2", "h3", "h4",
                    "h5", "h6", "img", "input", "li", "ol", "p", "pre", "section",
                    "source", "span", "strong", "sup", "table", "ul"},
      attributes |-> {<<"a", "href", AnyValue>>, <<"img", "src", AnyValue>>,
                      <<"a", "dataFootnoteRef", AnyValue>>,
                      <<"a", "dataFootnoteBackref", AnyValue>>,
                      <<"a", "className", Exactly(<<"data-footnote-backref">>)>>,
                      <<"section", "dataFootnotes", AnyValue>>,
                      <<"section", "className", Exactly(<<"footnotes">>)>>,
                      <<"*", "id", AnyValue>>,
                      <<"img", "longDesc", AnyValue>>,
                      <<"code", "className", [prefix |-> <<"language-">>, more |-> "some"]>>,
                      <<"input", "disabled", AnyValue>>, <<"input", "type", Exactly(<<"checkbox">>)>>,
                      <<"*", "alt", AnyValue>>, <<"*", "title", AnyValue>>, <<"*", "width", AnyValue>>,
                      <<"*", "height", AnyValue>>, <<"*", "align", AnyValue>>},
      protocols |-> {<<"href", "http://">>, <<"href", "https://">>, <<"href", "mailto:">>,
                     <<"src", "http://">>, <<"src", "https://">>,
                     <<"longDesc", "http://">>, <<"longDesc", "https://">>},
      strip |-> {"script"},
      clobber |-> {"id", "name"},
      clobberPrefix |-> "user-content-" ]

\* schema.attributes[tag] = [...(schema.attributes[tag] ?? []), ...more]
Extend(attributes, tag, more) ==
    attributes \cup {<<tag, m[1], m[2]>> : m \in more}

\* schema.attributes[tag] = more
Replace(attributes, tag, more) ==
    {a \in attributes : a[1] /= tag} \cup {<<tag, m[1], m[2]>> : m \in more}

Headings == {"h1", "h2", "h3", "h4", "h5", "h6"}

\* a buildSchema that leaves the default clobberPrefix in place
KeepClobberPrefix(schema) == schema

\* schema.clobberPrefix = ""
NoClobberPrefix(schema) == [schema EXCEPT !.clobberPrefix = ""]

\* a copy that is the object itself
sameObject(object) == [value |-> object, alias |-> TRUE]

\* structuredClone: an equal value in a new object
structuredClone(object) == [value |-> object, alias |-> FALSE]

\* the assignments of buildSchema, made on the object `schema`
BuiltOn(schema, opts) ==
    LET m == opts.math
        mathOf(field) == IF m = Undefined THEN {} ELSE Get(m)[field]
        spanClassPatterns == {"pl-", "hljs-", "code-lang", "line"} \cup mathOf("spanClassPrefixes")
        a0 == schema.attributes
        a1 == a0 \cup {<<h, "id", AnyValue>> : h \in Headings}
                 \cup {<<h, "className", Exactly(<<"sr-only">>)>> : h \in Headings}
        a2 == Extend(a1, "a", {<<"id", AnyValue>>, <<"ariaHidden", AnyValue>>, <<"tabIndex", AnyValue>>})
        a3 == Extend(a2, "code", {<<"className", [prefix |-> <<"language-">>, more |-> "some"]>>})
        a4 == Extend(a3, "span", {<<"className", StartsWith(<<c>>)>> : c \in spanClassPatterns})
        a5 == Extend(a4, "span", {<<x, AnyValue>> : x \in mathOf("spanAttributes")})
        a6 == Extend(a5, "pre", {<<"className", AnyValue>>, <<"dataLineNumbers", AnyValue>>})
        a7 == Extend(a6, "div", {<<"className", StartsWith(<<"highlight">>)>>,
                                 <<"className", StartsWith(<<"code-header">>)>>,
                                 <<"className", StartsWith(<<"markdown-">>)>>})
        a8 == Extend(a7, "p", {<<"className", Exactly(<<"markdown-alert-title">>)>>})
        a9 == Replace(a8, "svg", {<<"viewBox", AnyValue>>, <<"width", AnyValue>>, <<"height", AnyValue>>,
                                  <<"ariaHidden", AnyValue>>, <<"fill", AnyValue>>, <<"className", AnyValue>>})
        a10 == Replace(a9, "path", {<<"fillRule", AnyValue>>, <<"d", AnyValue>>})
        a11 == Replace(a10, "input", {<<"type", AnyValue>>, <<"checked", AnyValue>>, <<"disabled", AnyValue>>})
        a12 == IF Truthy(opts.allowIframes)
               THEN Replace(a11, "iframe", {<<"src", AnyValue>>, <<"width", AnyValue>>,
                                            <<"height", AnyValue>>, <<"frameBorder", AnyValue>>})
               ELSE a11
        a13 == a12 \cup {<<ta[1], ta[2], AnyValue>> : ta \in mathOf("tagAttributes")}
    IN [ NoClobberPrefix(schema) EXCEPT
           !.tagNames = @ \cup {"svg", "path", "input"}
                          \cup (IF Truthy(opts.allowIframes) THEN {"iframe"} ELSE {})
                          \cup mathOf("tagNames"),
           !.attributes = a13 ]

buildSchema(opts) == BuiltOn(structuredClone(defaultSchema).value, opts)

\* an empty schema, for the stages that take none
NoSchema ==
    [ tagNames |-> {}, attributes |-> {}, protocols |-> {}, strip |-> {},
      clobber |-> {}, clobberPrefix |-> "" ]

----------------------------------------------------------------------------
\* rehype-sanitize: the allow-list filter the schema describes.

Accepts(pattern, value) ==
    /\ Len(value) >= Len(pattern.prefix)
    /\ SubSeq(value, 1, Len(pattern.prefix)) = pattern.prefix
    /\ pattern.more = "none" => Len(value) = Len(pattern.prefix)
    /\ pattern.more = "some" => Len(value) > Len(pattern.prefix)

\* a value with a scheme must use one the schema lists for the property
ProtocolAllowed(schema, name, value) ==
    \/ ~(\E pr \in schema.protocols : pr[1] = name)
    \/ value = <<>>
    \/ value[1] \notin SchemeTokens
    \/ <<name, value[1]>> \in schema.protocols

PropertyAllowed(schema, tag, name, value) ==
    /\ \E a \in schema.attributes :
          a[1] \in {tag, "*"} /\ a[2] = name /\ Accepts(a[3], value)
    /\ ProtocolAllowed(schema, name, value)

\* the properties that survive, ids and names clobber-prefixed
SafeProps(schema, node) ==
    {IF q[1] \in schema.clobber /\ q[2] /= <<>>
     THEN <<q[1], <<schema.clobberPrefix \o q[2][1]>> \o Tail(q[2])>> ELSE q
       : q \in {r \in node.props : PropertyAllowed(schema, node.tag, r[1], r[2])}}

RECURSIVE sanitize(_, _)
\* an element whose tag is allowed keeps its allowed properties; another is
\* dropped with its content when stripped, and replaced by its children otherwise
sanitize(nodes, schema) ==
    IF nodes = <<>> THEN <<>>
    ELSE LET n == Head(nodes)
             kids == sanitize(n.kids, schema)
             out ==
               IF n.type /= "element" THEN <<n>>
               ELSE IF n.tag \in schema.tagNames
                    THEN <<[n EXCEPT !.props = SafeProps(schema, n), !.kids = kids]>>
               ELSE IF n.tag \in schema.strip THEN <<>>
               ELSE kids
         IN out \o sanitize(Tail(nodes), schema)

----------------------------------------------------------------------------
\* The pipeline: an ordered list of stages.  `slot` names the `.use(...)` call
\* of createProcessor that attached the stage.

Stage(slot, plugin, schema, baseUrl) ==
    [slot |-> slot, plugin |-> plugin, schema |-> schema, baseUrl |-> baseUrl]

Builtin(slot, fn) == Stage(slot, Plugin(fn, "", ""), NoSchema, Undefined)

\* applyPlugin, for each element of a caller's list
applyPlugins(slot, plugins) ==
    IF plugins = Undefined THEN <<>>
    ELSE [i \in 1..Len(Get(plugins)) |-> Stage(slot, Get(plugins)[i], NoSchema, Undefined)]

\* `if (opts.x) processor = applyPlugin(processor, opts.x...)`
applyPlugin(slot, plugin) ==
    IF plugin = Undefined THEN <<>> ELSE <<Stage(slot, Get(plugin), NoSchema, Undefined)>>

\* createProcessor attaching rehypeSanitize before the caller's rehype plugins
StagesSanitizeEarly(opts) ==
    <<Builtin("parse", "remarkParse"),
      Builtin("gfm", "remarkGfm"),
      Builtin("frontmatter", "remarkFrontmatter"),
      Builtin("extractFrontmatter", "remarkExtractFrontmatter")>>
    \o (IF opts.allowEmoji /= Some(FALSE) THEN <<Builtin("emoji", "remarkEmojify")>> ELSE <<>>)
    \o applyPlugin("mathParse",
                   IF opts.math = Undefined THEN Undefined ELSE Some(Get(opts.math).remarkPlugin))
    \o applyPlugins("remarkPlugins", opts.remarkPlugins)
    \o <<Builtin("toHast", "remarkRehype"),
         Builtin("raw", "rehypeRaw"),
         Builtin("alerts", "rehypeGithubAlerts"),
         Builtin("slug", "rehypeSlug"),
         Builtin("toc", "rehypeExtractToc"),
         Builtin("autolink", "rehypeAutolinkHeadings"),
         Stage("resolveUrls", Plugin("rehypeResolveUrls", "", ""), NoSchema, opts.baseUrl)>>
    \o applyPlugin("highlighter", opts.highlighter)
    \o applyPlugin("mathRender",
                   IF opts.math = Undefined THEN Undefined ELSE Some(Get(opts.math).rehypePlugin))
    \o <<Builtin("codeBlocks", "rehypeCodeBlocks")>>
    \o (IF Truthy(opts.lineNumbers) THEN <<Builtin("lineNumbers", "rehypeLineNumbers")>> ELSE <<>>)
    \o (IF ~Truthy(opts.disableHtmlSanitization)
        THEN <<Stage("sanitize", Plugin("rehypeSanitize", "", ""), buildSchema(opts), Undefined)>>
        ELSE <<>>)
    \o applyPlugins("rehypePlugins", opts.rehypePlugins)
    \o (IF Truthy(opts.inline) THEN <<Builtin("unwrap", "rehypeUnwrapParagraphs")>> ELSE <<>>)
    \o <<Builtin("stringify", "rehypeStringify")>>

\* createProcessor after validateBaseUrl: the stages in the order of the
\* `.use` calls
Stages(opts) ==
    <<Builtin("parse", "remarkParse"),
      Builtin("gfm", "remarkGfm"),
      Builtin("frontmatter", "remarkFrontmatter"),
      Builtin("extractFrontmatter", "remarkExtractFrontmatter")>>
    \o (IF opts.allowEmoji /= Some(FALSE) THEN <<Builtin("emoji", "remarkEmojify")>> ELSE <<>>)
    \o applyPlugin("mathParse",
                   IF opts.math = Undefined THEN Undefined ELSE Some(Get(opts.math).remarkPlugin))
    \o applyPlugins("remarkPlugins", opts.remarkPlugins)
    \o <<Builtin("toHast", "remarkRehype"),
         Builtin("raw", "rehypeRaw"),
         Builtin("alerts", "rehypeGithubAlerts"),
         Builtin("slug", "rehypeSlug"),
         Builtin("toc", "rehypeExtractToc"),
         Builtin("autolink", "rehypeAutolinkHeadings"),
         Stage("resolveUrls", Plugin("rehypeResolveUrls", "", ""), NoSchema, opts.baseUrl)>>
    \o applyPlugin("highlighter", opts.highlighter)
    \o applyPlugin("mathRender",
                   IF opts.math = Undefined THEN Undefined ELSE Some(Get(opts.math).rehypePlugin))
    \o <<Builtin("codeBlocks", "rehypeCodeBlocks")>>
    \o (IF Truthy(opts.lineNumbers) THEN <<Builtin("lineNumbers", "rehypeLineNumbers")>> ELSE <<>>)
    \o applyPlugins("rehypePlugins", opts.rehypePlugins)
    \o (IF ~Truthy(opts.disableHtmlSanitization)
        THEN <<Stage("sanitize", Plugin("rehypeSanitize", "", ""), buildSchema(opts), Undefined)>>
        ELSE <<>>)
    \o (IF Truthy(opts.inline) THEN <<Builtin("unwrap", "rehypeUnwrapParagraphs")>> ELSE <<>>)
    \o <<Builtin("stringify", "rehypeStringify")>>

\* what a caller-supplied transformer does to the tree
custom(plugin, ps) ==
    CASE plugin.does = "throw" ->
           [ps EXCEPT !.error = [name |-> plugin.settings, value |-> <<>>]]
      [] plugin.does = "insert-script" ->
           [ps EXCEPT !.tree = Append(@, Element("script", {}, <<Text(<<"alert(1)">>)>>))]
      [] plugin.does = "empty-tree" -> [ps EXCEPT !.tree = <<>>]
      [] OTHER -> ps

\* one stage's transformer, run on the state the previous one left
ApplyStage(stage, ps) ==
    IF Failed(ps) THEN ps
    ELSE CASE stage.slot = "extractFrontmatter" -> remarkExtractFrontmatter(ps)
           [] stage.slot = "emoji" -> [ps EXCEPT !.tree = remarkEmojify(@)]
           [] stage.slot = "mathParse" ->
                [ps EXCEPT !.tree = IF stage.plugin.does = "math-parse"
                                    THEN remarkMath(@) ELSE @]
           [] stage.slot \in {"remarkPlugins", "rehypePlugins"} -> custom(stage.plugin, ps)
           [] stage.slot = "toHast" -> [ps EXCEPT !.tree = remarkRehype(@) \o Footer(@)]
           [] stage.slot = "raw" -> [ps EXCEPT !.tree = rehypeRaw(@)]
           [] stage.slot = "slug" -> [ps EXCEPT !.tree = rehypeSlug(@)]
           [] stage.slot = "toc" -> rehypeExtractToc(ps)
           [] stage.slot = "autolink" -> [ps EXCEPT !.tree = rehypeAutolinkHeadings(@)]
           [] stage.slot = "resolveUrls" ->
                [ps EXCEPT !.tree = rehypeResolveUrls(@, stage.baseUrl)]
           [] stage.slot = "highlighter" -> [ps EXCEPT !.tree = highlight(@, "", stage.plugin)]
           [] stage.slot = "mathRender" -> [ps EXCEPT !.tree = renderMath(@, stage.plugin)]
           [] stage.slot = "codeBlocks" -> [ps EXCEPT !.tree = rehypeCodeBlocks(@)]
           [] stage.slot = "lineNumbers" -> [ps EXCEPT !.tree = rehypeLineNumbers(@)]
           [] stage.slot = "sanitize" -> [ps EXCEPT !.tree = sanitize(@, stage.schema)]
           [] stage.slot = "unwrap" -> [ps EXCEPT !.tree = rehypeUnwrapParagraphs(@)]
           [] OTHER -> ps

RECURSIVE RunFrom(_, _, _)
RunFrom(stages, i, ps) ==
    IF i > Len(stages) THEN ps ELSE RunFrom(stages, i + 1, ApplyStage(stages[i], ps))

\* processor.process(markdown): every stage in order on the parsed document
process(stages, doc) == RunFrom(stages, 1, ProcessState(doc))

\* what render / renderWithMeta make of a finished run
RenderResult(ps) ==
    [ html |-> ps.tree,
      toc |-> OrElse(ps.toc, <<>>),
      frontmatter |-> OrElse(ps.frontmatter, "null") ]

----------------------------------------------------------------------------
\* The processor cache.

MAX_CACHE_SIZE == 10

Keys(cache) == {cache[i].key : i \in 1..Len(cache)}

\* a lookup that finds nothing, as with a key that differs on every call
LookupNever(cache, key) == 0

\* processorCache.get(key): the index of the entry, or 0
Lookup(cache, key) ==
    IF key \in Keys(cache) THEN CHOOSE i \in 1..Len(cache) : cache[i].key = key ELSE 0

\* processorCache.delete(key)
Delete(cache, key) == SelectSeq(cache, LAMBDA e : e.key /= key)

Entry(key, pipe, used) == [key |-> key, pipe |-> pipe, used |-> used]

\* a Pipeline object: which createProcessor call made it, and the options it
\* closed over (its stages are Stages(opts))
Pipeline(id, opts) == [id |-> id, opts |-> opts]

NoPipeline == Pipeline(0, DefaultOpts)

\* createProcessor, as the id-th call of it: the error validateBaseUrl throws,
\* or the pipeline
createProcessor(opts, id) ==
    LET e == validateBaseUrl(opts.baseUrl) IN
    IF e /= NoError THEN [error |-> e, pipe |-> NoPipeline]
    ELSE [error |-> NoError, pipe |-> Pipeline(id, opts)]

\* the capacity test with > for >=
AtCapacityOffByOne(cache) == Len(cache) > MAX_CACHE_SIZE

\* processorCache.size >= MAX_CACHE_SIZE
AtCapacity(cache) == Len(cache) >= MAX_CACHE_SIZE

\* getProcessor whose hit returns the entry without the delete-and-set
getProcessorNoRefresh(opts, cache, n, now) ==
    LET key == getCacheKey(opts)
        made == createProcessor(opts, n + 1)
        i == Lookup(cache, key)
        evicted == IF AtCapacity(cache) THEN Delete(cache, Head(cache).key) ELSE cache
    IN IF key = NoKey
       THEN [ cache |-> cache, error |-> made.error, assembled |-> TRUE, hit |-> FALSE,
              pipe |-> made.pipe ]
       ELSE IF i /= 0
       THEN [ cache |-> cache,
              error |-> NoError, assembled |-> FALSE, hit |-> TRUE, pipe |-> cache[i].pipe ]
       ELSE IF made.error /= NoError
       THEN [ cache |-> evicted, error |-> made.error, assembled |-> TRUE, hit |-> FALSE,
              pipe |-> made.pipe ]
       ELSE [ cache |-> Append(evicted, Entry(key, made.pipe, now)),
              error |-> NoError, assembled |-> TRUE, hit |-> FALSE, pipe |-> made.pipe ]

\* getProcessor without the `key === null` early return: the pipeline of a
\* configuration with custom plugins is stored like any other
getProcessorStoresAll(opts, cache, n, now) ==
    LET key == getCacheKey(opts)
        made == createProcessor(opts, n + 1)
        i == Lookup(cache, key)
        evicted == IF AtCapacity(cache) THEN Delete(cache, Head(cache).key) ELSE cache
    IN IF i /= 0
       THEN [ cache |-> Append(Delete(cache, key), Entry(key, cache[i].pipe, now)),
              error |-> NoError, assembled |-> FALSE, hit |-> TRUE, pipe |-> cache[i].pipe ]
       ELSE IF made.error /= NoError
       THEN [ cache |-> evicted, error |-> made.error, assembled |-> TRUE, hit |-> FALSE,
              pipe |-> made.pipe ]
       ELSE [ cache |-> Append(evicted, Entry(key, made.pipe, now)),
              error |-> NoError, assembled |-> TRUE, hit |-> FALSE, pipe |-> made.pipe ]

\* getProcessor without the `processorCache.set(key, created)` of a miss
getProcessorNoStore(opts, cache, n, now) ==
    LET key == getCacheKey(opts)
        made == createProcessor(opts, n + 1)
        i == Lookup(cache, key)
        evicted == IF AtCapacity(cache) THEN Delete(cache, Head(cache).key) ELSE cache
    IN IF key = NoKey
       THEN [ cache |-> cache, error |-> made.error, assembled |-> TRUE, hit |-> FALSE,
              pipe |-> made.pipe ]
       ELSE IF i /= 0
       THEN [ cache |-> Append(Delete(cache, key), Entry(key, cache[i].pipe, now)),
              error |-> NoError, assembled |-> FALSE, hit |-> TRUE, pipe |-> cache[i].pipe ]
       ELSE [ cache |-> evicted, error |-> made.error, assembled |-> TRUE, hit |-> FALSE,
              pipe |-> made.pipe ]

\* getProcessor(opts) on cache `cache`, as the (n+1)st createProcessor call
\* if it comes to one, at time `now`: the cache it leaves, the pipeline it
\* returns or the error it throws, and whether createProcessor was entered
getProcessor(opts, cache, n, now) ==
    LET key == getCacheKey(opts)
        made == createProcessor(opts, n + 1)
        i == Lookup(cache, key)
        evicted == IF AtCapacity(cache) THEN Delete(cache, Head(cache).key) ELSE cache
    IN IF key = NoKey
       THEN [ cache |-> cache, error |-> made.error, assembled |-> TRUE, hit |-> FALSE,
              pipe |-> made.pipe ]
       ELSE IF i /= 0
       THEN [ cache |-> Append(Delete(cache, key), Entry(key, cache[i].pipe, now)),
              error |-> NoError, assembled |-> FALSE, hit |-> TRUE, pipe |-> cache[i].pipe ]
       ELSE IF made.error /= NoError
       THEN [ cache |-> evicted, error |-> made.error, assembled |-> TRUE, hit |-> FALSE,
              pipe |-> made.pipe ]
       ELSE [ cache |-> Append(evicted, Entry(key, made.pipe, now)),
              error |-> NoError, assembled |-> TRUE, hit |-> FALSE, pipe |-> made.pipe ]

----------------------------------------------------------------------------
\* Inputs of the cache specification.

With(field, value) == [DefaultOpts EXCEPT ![field] = Some(value)]

\* the start-up warmups: MAX_CACHE_SIZE configurations with distinct keys
WarmOpts ==
    << DefaultOpts,
       With("allowIframes", TRUE),
       With("lineNumbers", TRUE),
       With("inline", TRUE),
       With("allowEmoji", FALSE),
       With("disableHtmlSanitization", TRUE),
       With("baseUrl", docsUrl),
       With("highlighter", lowlightPlugin),
       With("highlighter", starryNightPlugin),
       With("math", math) >>

\* the sizes start-up may leave the cache at before requests are served:
\* empty, one below capacity, and full
ServeFrom == {0, MAX_CACHE_SIZE - 1, MAX_CACHE_SIZE}

\* the configurations requested after start-up
ServeOpts ==
    { DefaultOpts,
      With("remarkPlugins", <<>>),
      With("math", scriptMath),
      [With("allowIframes", TRUE) EXCEPT !.inline = Some(TRUE)],
      With("remarkPlugins", <<throwingRemark>>),
      With("rehypePlugins", <<noopPlugin>>),
      With("baseUrl", emptyUrl),
      [With("baseUrl", brokenUrl) EXCEPT !.rehypePlugins = Some(<<throwingRehype>>)] }

\* the document requested: "# Hello :wave:", a fence without a language, "$x$"
ServeDoc ==
    << Heading(1, <<"Hello", ":wave:">>),
       Code("", <<"const", "x", "\n">>),
       Paragraph(<<"$x$">>) >>

\* every configuration a call is made with
AllOpts == ServeOpts \cup {WarmOpts[i] : i \in 1..Len(WarmOpts)}

\* processor.process(ServeDoc) on the pipeline createProcessor(opts) returns
Processed == [opts \in AllOpts |-> process(Stages(opts), ServeDoc)]

----------------------------------------------------------------------------
\* The entry points.  `calls` is the record of every call that reached
\* getProcessor, in the order they reached it.

\* a call as getProcessor's result r leaves it: rejected at once when
\* getProcessor threw, done when it is a warmup, else awaiting process()
Call(kind, opts, r) ==
    [ kind |-> kind, opts |-> opts, pipe |-> r.pipe, assembled |-> r.assembled,
      hit |-> r.hit, error |-> r.error,
      status |-> IF r.error /= NoError THEN "threw"
                 ELSE IF kind = "warmup" THEN "returned" ELSE "pending",
      html |-> <<>>, toc |-> <<>>, frontmatter |-> "null" ]

Pending == {i \in 1..Len(calls) : calls[i].status = "pending"}

Init ==
    /\ processorCache = <<>>
    /\ created = 0
    /\ calls = <<>>
    /\ warmed = 0
    /\ ops = 0
    /\ run = [pc |-> "off"]

\* getProcessor(opts) called by an entry point: its effect on the cache and
\* on the number of pipelines assembled, and the call it leaves
Fetch(kind, opts) ==
    LET r == getProcessor(opts, processorCache, created, Len(calls) + 1) IN
    /\ processorCache' = r.cache
    /\ created' = IF r.assembled THEN created + 1 ELSE created
    /\ calls' = Append(calls, Call(kind, opts, r))
    /\ UNCHANGED run

\* a warmup at start-up, before anything is served
StartupWarmup ==
    /\ ops = 0 /\ Pending = {}
    /\ warmed < Len(WarmOpts)
    /\ warmed' = warmed + 1
    /\ Fetch("warmup", WarmOpts[warmed + 1])
    /\ UNCHANGED ops

\* requests are served once start-up is over
Serving == warmed \in ServeFrom /\ ops < MaxOps

\* warmup(opts), synchronous
warmup(opts) ==
    /\ Serving
    /\ ops' = ops + 1
    /\ Fetch("warmup", opts)
    /\ UNCHANGED warmed

\* render / renderWithMeta up to `await processor.process(markdown)`: a throw
\* of getProcessor rejects the call at once
RenderStart(kind, opts) ==
    /\ Serving
    /\ Cardinality(Pending) < MaxInFlight
    /\ ops' = ops + 1
    /\ Fetch(kind, opts)
    /\ UNCHANGED warmed

\* the rest of render / renderWithMeta: process() settles, the call returns
\* the html (render) or the html with the metadata the run left (renderWithMeta)
RenderFinish(i) ==
    LET c == calls[i]
        ps == Processed[c.pipe.opts]
        result == RenderResult(ps)
    IN /\ c.status = "pending"
       /\ calls' = [calls EXCEPT ![i] =
                      IF Failed(ps) THEN [c EXCEPT !.status = "threw", !.error = ps.error]
                      ELSE IF c.kind = "renderWithMeta"
                      THEN [c EXCEPT !.status = "returned", !.html = result.html,
                                     !.toc = result.toc, !.frontmatter = result.frontmatter]
                      ELSE [c EXCEPT !.status = "returned", !.html = result.html]]
       /\ UNCHANGED <<processorCache, created, warmed, ops, run>>

\* clearCache deleting the oldest entry where the code clears the map
clearCacheOldest ==
    /\ Serving
    /\ ops' = ops + 1
    /\ processorCache' = IF processorCache = <<>> THEN <<>> ELSE Tail(processorCache)
    /\ UNCHANGED <<created, calls, warmed, run>>

\* clearCache(): processorCache.clear()
clearCache ==
    /\ Serving
    /\ ops' = ops + 1
    /\ processorCache' = <<>>
    /\ UNCHANGED <<created, calls, warmed, run>>

Next ==
    \/ StartupWarmup
    \/ \E opts \in ServeOpts : warmup(opts)
    \/ \E opts \in ServeOpts : RenderStart("render", opts)
    \/ \E opts \in ServeOpts : RenderStart("renderWithMeta", opts)
    \/ \E i \in Pending : RenderFinish(i)
    \/ clearCache

Spec == Init /\ [][Next]_vars

----------------------------------------------------------------------------
\* Properties of the cache specification.

Entries(cache) == {cache[i] : i \in 1..Len(cache)}

\* the entry whose last hit-or-insert is oldest
Oldest(cache) ==
    CHOOSE e \in Entries(cache) : \A o \in Entries(cache) : e.used <= o.used

\* the step is a call of getProcessor
Requested == Len(calls') = Len(calls) + 1

\* the call that getProcessor step served
Request == calls'[Len(calls')]

IsRender(c) == c.kind \in {"render", "renderWithMeta"}

\* the first n calls asked for n cacheable configurations with distinct keys
DistinctCacheable(log, n) ==
    /\ Len(log) >= n
    /\ \A i \in 1..n : getCacheKey(log[i].opts) /= NoKey /\ log[i].error = NoError
    /\ \A i, j \in 1..n : i /= j => getCacheKey(log[i].opts) /= getCacheKey(log[j].opts)

\* clearCache was among the requests made so far
Cleared == warmed + ops > Len(calls)

\* C2: in the pipeline cache, every hit and every insert makes the entry the
\* most recently used one; a request for a cacheable configuration whose key
\* is absent while the cache holds MAX_CACHE_SIZE entries removes exactly one
\* entry, the one whose last hit-or-insert is oldest, and keeps all the
\* others; after MAX_CACHE_SIZE + 1 distinct cacheable configurations in
\* sequence (no clearCache between them) the first is no longer in the cache and the others still are.
C2_LruEviction ==
    [][Requested =>
         LET k == getCacheKey(Request.opts)
             before == Entries(processorCache)
             after == Entries(processorCache')
         IN /\ (k /= NoKey /\ Request.error = NoError) =>
                 \E e \in after :
                    /\ e.key = k /\ e.used = Len(calls')
                    /\ \A o \in after \ {e} : o \in before /\ o.used < e.used
            /\ (k /= NoKey /\ k \notin Keys(processorCache)
                  /\ Len(processorCache) = MAX_CACHE_SIZE) =>
                 /\ before \ after = {Oldest(processorCache)}
                 /\ \A o \in before \ {Oldest(processorCache)} : o \in after
            /\ (DistinctCacheable(calls', MAX_CACHE_SIZE + 1)
                  /\ Len(calls') = MAX_CACHE_SIZE + 1 /\ ~Cleared') =>
                 /\ getCacheKey(calls'[1].opts) \notin Keys(processorCache')
                 /\ \A i \in 2..(MAX_CACHE_SIZE + 1) :
                       getCacheKey(calls'[i].opts) \in Keys(processorCache')
    ]_vars

\* C2's case: the oldest entry was hit, then a new cacheable configuration
\* arrived at a full cache: the second-oldest entry went, the hit one stayed
C2_Witness ==
    /\ Len(calls) = MAX_CACHE_SIZE + 2
    /\ Len(processorCache) = MAX_CACHE_SIZE
    /\ calls[MAX_CACHE_SIZE + 1].hit
    /\ calls[MAX_CACHE_SIZE + 1].opts = calls[1].opts
    /\ calls[MAX_CACHE_SIZE + 2].assembled
    /\ getCacheKey(calls[MAX_CACHE_SIZE + 2].opts) \in Keys(processorCache)
    /\ getCacheKey(calls[1].opts) \in Keys(processorCache)
    /\ getCacheKey(calls[2].opts) \notin Keys(processorCache)

\* C3: a render, renderWithMeta or warmup call whose configuration has a
\* non-empty remarkPlugins or rehypePlugins list enters createProcessor on
\* every call, gets a pipeline no other call got and that is not in the cache,
\* and leaves the cache (entries and their order) exactly as it was.
C3_PluginsBypassCache ==
    [][(Requested /\ HasCustomPlugins(Request.opts)) =>
         /\ processorCache' = processorCache
         /\ Request.assembled /\ ~Request.hit
         /\ created' = created + 1
         /\ Request.error = NoError =>
              /\ Request.pipe.opts = Request.opts
              /\ \A i \in 1..Len(calls) : calls[i].pipe /= Request.pipe
              /\ \A e \in Entries(processorCache') : e.pipe /= Request.pipe
         /\ \A e \in Entries(processorCache') : ~HasCustomPlugins(e.pipe.opts)
    ]_vars

\* C3's case: two calls with the same plugin list, each with its own pipeline,
\* and the full cache still holding the start-up configurations
C3_Witness ==
    \E i, j \in 1..Len(calls) :
       /\ i < j
       /\ HasCustomPlugins(calls[i].opts) /\ calls[j].opts = calls[i].opts
       /\ calls[i].error = NoError /\ calls[j].error = NoError
       /\ calls[i].pipe /= calls[j].pipe
       /\ Len(processorCache) = MAX_CACHE_SIZE
       /\ \A n \in 1..MAX_CACHE_SIZE : processorCache[n].pipe = calls[n].pipe

\* the errors the caller's plugins of a configuration throw, in stage order
PluginErrors(opts) ==
    LET plugins == OrElse(opts.remarkPlugins, <<>>) \o OrElse(opts.rehypePlugins, <<>>)
    IN SelectSeq(plugins, LAMBDA p : p.does = "throw")

\* a configuration with a usable base URL and no throwing plugin
Sound(opts) ==
    /\ PluginErrors(opts) = <<>>
    /\ opts.baseUrl /= Undefined => UrlParses(Get(opts.baseUrl))

\* the render call i was rejected by a plugin of its own configuration
PluginRejected(log, i) ==
    /\ IsRender(log[i]) /\ log[i].status = "threw"
    /\ PluginErrors(log[i].opts) /= <<>>
    /\ log[i].error.name = PluginErrors(log[i].opts)[1].settings

\* C4: a render whose caller-supplied remark or rehype plugin throws is
\* rejected with that plugin's own error; neither its getProcessor step nor
\* its rejection changes the pipeline cache; and every render that comes
\* after it with a configuration that has no throwing plugin succeeds.
C4_PluginErrorIsolated ==
    [][/\ (Requested /\ PluginErrors(Request.opts) /= <<>>) =>
            processorCache' = processorCache
       /\ \A i \in Pending :
            (calls'[i].status /= "pending" /\ PluginErrors(calls[i].opts) /= <<>>) =>
                /\ PluginRejected(calls', i)
                /\ calls'[i].html = <<>>
                /\ processorCache' = processorCache
       /\ \A i, j \in 1..Len(calls') :
            (i < j /\ PluginRejected(calls', i) /\ IsRender(calls'[j])
               /\ Sound(calls'[j].opts) /\ calls'[j].status /= "pending") =>
                calls'[j].status = "returned"
    ]_vars

\* C4's case: a render rejected by its plugin, then a render of another
\* configuration that was served from the cache and returned
C4_Witness ==
    \E i, j \in 1..Len(calls) :
       /\ i < j
       /\ PluginRejected(calls, i)
       /\ calls[i].error.name = "remark plugin exploded"
       /\ IsRender(calls[j]) /\ calls[j].hit /\ calls[j].status = "returned"
       /\ calls[j].html /= <<>>

\* C5: after any sequence of render, renderWithMeta, warmup and clearCache
\* calls the cache holds at most MAX_CACHE_SIZE pipelines and at most one
\* entry per configuration fingerprint.
C5_CacheBounded ==
    /\ Len(processorCache) <= MAX_CACHE_SIZE
    /\ \A i, j \in 1..Len(processorCache) :
          i /= j => processorCache[i].key /= processorCache[j].key

\* C5's case: a full cache that has served a second configuration with the
\* fingerprint of a stored one and has then taken a new fingerprint
C5_Witness ==
    /\ Len(processorCache) = MAX_CACHE_SIZE
    /\ \E i, j \in 1..Len(calls) :
          /\ i < j
          /\ calls[i].hit /\ calls[i].opts /= calls[i].pipe.opts
          /\ calls[j].assembled /\ calls[j].error = NoError
          /\ getCacheKey(calls[j].opts) /= NoKey
          /\ j > MAX_CACHE_SIZE

\* a base URL that is given and that `new URL` rejects
Malformed(opts) == opts.baseUrl /= Undefined /\ ~UrlParses(Get(opts.baseUrl))

\* C7: every render, renderWithMeta or warmup call whose configuration has a
\* malformed baseUrl (the empty string included) throws 'Invalid baseUrl'
\* naming the value before process() is entered, on the first call and on
\* every later one: no pipeline of such a configuration is in the cache or
\* was handed to a call.
C7_BadBaseUrlRejected ==
    /\ \A i \in 1..Len(calls) :
          Malformed(calls[i].opts) =>
             /\ calls[i].status = "threw"
             /\ calls[i].error.name = "Invalid baseUrl"
             /\ calls[i].error.value = Get(calls[i].opts.baseUrl)
             /\ calls[i].html = <<>> /\ ~calls[i].hit
    /\ \A i \in 1..Len(calls) : calls[i].error = NoError => ~Malformed(calls[i].pipe.opts)
    /\ \A e \in Entries(processorCache) : ~Malformed(e.pipe.opts)

\* C7's case: the empty baseUrl was asked for twice and rejected twice
C7_Witness ==
    \E i, j \in 1..Len(calls) :
       /\ i < j
       /\ calls[i].opts.baseUrl = Some(emptyUrl) /\ calls[j].opts = calls[i].opts
       /\ calls[i].status = "threw" /\ calls[j].status = "threw"
       /\ IsRender(calls[i]) /\ calls[j].kind = "warmup"

\* C8: for every valid configuration C, every render(ServeDoc, C) returns the
\* string a freshly assembled pipeline for C gives, whether its pipeline was
\* assembled for the call or served from the cache, any two calls with the
\* same C return the same string, and renderWithMeta's html is render's.
C8_Deterministic ==
    /\ \A i \in 1..Len(calls) :
          (IsRender(calls[i]) /\ calls[i].status = "returned") =>
              calls[i].html = process(Stages(calls[i].opts), ServeDoc).tree
    /\ \A i, j \in 1..Len(calls) :
          (IsRender(calls[i]) /\ IsRender(calls[j]) /\ calls[i].opts = calls[j].opts
             /\ calls[i].status = "returned" /\ calls[j].status = "returned") =>
              calls[i].html = calls[j].html

\* the call is a warmup of a cacheable configuration that did not throw
WarmedUp(c) == c.kind = "warmup" /\ c.error = NoError /\ getCacheKey(c.opts) /= NoKey

\* the entry the warmup `c` left is still the one under its key
StillStored(c, cache) ==
    \E e \in Entries(cache) : e.key = getCacheKey(c.opts) /\ e.pipe = c.pipe

\* a render of a cacheable configuration is served the pipeline of every
\* earlier warmup of its fingerprint whose entry is still stored, and
\* assembles nothing
ServedWarm ==
    (Requested /\ IsRender(Request) /\ getCacheKey(Request.opts) /= NoKey) =>
        \A i \in 1..Len(calls) :
           (WarmedUp(calls[i]) /\ getCacheKey(calls[i].opts) = getCacheKey(Request.opts)
              /\ StillStored(calls[i], processorCache)) =>
                 /\ Request.pipe = calls[i].pipe
                 /\ Request.hit /\ ~Request.assembled /\ Request.error = NoError
                 /\ created' = created

\* the warmup left its pipeline as the last, most recently used, entry and
\* returned without a document having been processed
StoredNewest ==
    (Requested /\ WarmedUp(Request)) =>
        /\ processorCache' /= <<>>
        /\ Last(processorCache').key = getCacheKey(Request.opts)
        /\ Last(processorCache').pipe = Request.pipe
        /\ \A i \in 1..(Len(processorCache') - 1) :
              processorCache'[i].used < Last(processorCache').used
        /\ Request.status = "returned" /\ Request.html = <<>>
        /\ Len(calls') \notin Pending'

\* C19 as stated: warmup(C) of a valid cacheable C assembles the pipeline
\* for C and stores it as the most recently used entry without processing a
\* document; the next render or renderWithMeta of the same fingerprint, the
\* entry not evicted and the cache not cleared in between, is served that
\* pipeline and assembles nothing.
C19_WarmupServes ==
    [][/\ StoredNewest
       /\ (Requested /\ WarmedUp(Request)) =>
             /\ Request.assembled /\ created' = created + 1
             /\ Request.pipe.opts = Request.opts
       /\ ServedWarm
    ]_vars

\* C19 amended: the warmup assembles the pipeline unless one of the same
\* fingerprint is cached, which it then keeps and makes the most recently
\* used entry.
C19_WarmupServesAmended ==
    [][/\ StoredNewest
       /\ (Requested /\ WarmedUp(Request)) =>
             IF getCacheKey(Request.opts) \in Keys(processorCache)
             THEN /\ ~Request.assembled /\ created' = created
                  /\ StillStored(Request, processorCache)
             ELSE /\ Request.assembled /\ created' = created + 1
                  /\ Request.pipe.opts = Request.opts
       /\ ServedWarm
    ]_vars

\* C19's case: a warmup assembled a pipeline, and the render that followed,
\* of another configuration with the same fingerprint, was served it
C19_Witness ==
    \E i, j \in 1..Len(calls) :
       /\ j = i + 1
       /\ WarmedUp(calls[i]) /\ calls[i].assembled
       /\ IsRender(calls[j]) /\ calls[j].opts /= calls[i].opts
       /\ calls[j].hit /\ ~calls[j].assembled
       /\ calls[j].pipe = calls[i].pipe

\* the step is a clearCache: a request that is no call of getProcessor
Clearing == ops' = ops + 1 /\ ~Requested

Assemblies == [opts \in AllOpts |-> Stages(opts)]

C23_BadBaseUrlKeepsCache ==
    [][(Requested /\ Request.error.name = "Invalid baseUrl") =>
          processorCache' = processorCache]_vars

----------------------------------------------------------------------------
\* Ids and the links to them.

RECURSIVE Elements(_)
\* the elements of a tree, in document order
Elements(nodes) ==
    IF nodes = <<>> THEN <<>>
    ELSE (IF Head(nodes).type = "element" THEN <<Head(nodes)>> ELSE <<>>)
         \o Elements(Head(nodes).kids) \o Elements(Tail(nodes))

\* the headings of a tree, in document order
HeadingElements(nodes) == SelectSeq(Elements(nodes), LAMBDA n : headingRank(n) > 0)

\* the ids the elements of a tree carry
IdsIn(nodes) ==
    {IdOf(Elements(nodes)[k]) : k \in {j \in 1..Len(Elements(nodes)) : HasId(Elements(nodes)[j])}}

\* the fragments of the links to a place in the page held by the nodes
Fragments(nodes) ==
    LET es == Elements(nodes)
        links == {k \in 1..Len(es) : /\ es[k].tag = "a"
                                       /\ \E h \in Prop(es[k], "href") : Len(h) = 2 /\ h[1] = "#"}
    IN {(CHOOSE h \in Prop(es[k], "href") : TRUE)[2] : k \in links}

\* the heading's own autolink: its first child, an <a> holding the icon
AutolinkOf(heading) ==
    IF heading.kids /= <<>> /\ heading.kids[1].type = "element" /\ heading.kids[1].tag = "a"
       /\ heading.kids[1].kids /= <<>> /\ heading.kids[1].kids[1].tag = "svg"
    THEN Fragments(<<[heading.kids[1] EXCEPT !.kids = <<>>]>>)
    ELSE {}

\* ids match from the heading-id stage to the page: the k-th heading keeps the
\* id rehypeSlug left it with, its toc entry has that id as slug, and its
\* autolink, where `linked` says it has one, points at it; every link to a
\* place in the page, those of footnotes included, has a target
IdsMatch(linked(_), textOf(_)) ==
    LET hs == HeadingElements(run.final)
        ss == HeadingElements(run.slugged)
    IN /\ Len(hs) = Len(ss) /\ Len(run.toc) = Len(ss)
       /\ \A k \in 1..Len(hs) :
             /\ HasId(hs[k]) /\ HasId(ss[k])
             /\ IdOf(hs[k]) = IdOf(ss[k])
             /\ run.toc[k].slug = IdOf(hs[k])
             /\ run.toc[k].text = textOf(k)
             /\ linked(hs[k]) => AutolinkOf(hs[k]) = {IdOf(hs[k])}
       /\ Fragments(run.final) \subseteq IdsIn(run.final)

\* C27 as stated: with sanitization on and no custom plugin, every heading's
\* id in the final HTML is the id the heading-id stage gave it, the fragment
\* of its autolink's href and the slug of its toc entry, the toc text is the
\* heading's flattened text before the anchor is added, and footnote links
\* and back-links have targets.
C27_IdsMatch ==
    run.pc = "ids" =>
        IdsMatch(LAMBDA h : TRUE, LAMBDA k : toString(HeadingElements(run.slugged)[k]))

\* C27 amended: the same, with the autolink clause for the headings whose id
\* is not empty.
C27_IdsMatchAmended ==
    run.pc = "ids" =>
        IdsMatch(LAMBDA h : IdOf(h) /= "", LAMBDA k : toString(HeadingElements(run.slugged)[k]))

\* C27's case: a page with a slugged heading and a footnote, whose section
\* brings a heading with an id of its own; all three kinds of link are there
C27_Witness ==
    /\ run.pc = "ids"
    /\ {"hello", "footnote-label", "user-content-fn-1", "user-content-fnref-1"}
          \subseteq Fragments(run.final)
    /\ Len(run.toc) = 2

----------------------------------------------------------------------------
\* Concurrent calls.  render and renderWithMeta run getProcessor at once and
\* give way only at `await processor.process(markdown)`; warmup and
\* clearCache do not await.  Several calls may be at their await together.

MaxCalls == 3

MaxFlights == 2

\* a cached configuration, one that is not, and one createProcessor rejects
FlightOpts ==
    { DefaultOpts,
      [With("allowIframes", TRUE) EXCEPT !.inline = Some(TRUE)],
      With("baseUrl", emptyUrl) }

\* render, renderWithMeta or warmup up to its await (warmup: to its end)
Enter(kind, opts) ==
    /\ warmed \in ServeFrom
    /\ ops < MaxCalls
    /\ Cardinality(Pending) < MaxFlights
    /\ ops' = ops + 1
    /\ Fetch(kind, opts)
    /\ UNCHANGED warmed

NextFlight ==
    \/ StartupWarmup
    \/ \E kind \in {"render", "renderWithMeta", "warmup"}, opts \in FlightOpts :
          Enter(kind, opts)
    \/ \E i \in Pending : RenderFinish(i)
    \/ clearCache

SpecFlight == Init /\ [][NextFlight]_vars

\* every getProcessor step is one whole cache operation: a hit moved to the
\* end, or an insert at the end after at most one eviction, that of the
\* least recently used entry of a full cache; keys stay distinct and the
\* cache within MAX_CACHE_SIZE
WholeOperation ==
    Requested =>
        LET k == getCacheKey(Request.opts)
            gone == Entries(processorCache) \ Entries(processorCache')
        IN /\ Len(processorCache') <= MAX_CACHE_SIZE
           /\ Cardinality(Keys(processorCache')) = Len(processorCache')
           /\ \A i \in 1..(Len(processorCache') - 1) :
                 processorCache'[i].used < processorCache'[i + 1].used
           /\ Request.hit =>
                 /\ Keys(processorCache') = Keys(processorCache)
                 /\ Last(processorCache').key = k
                 /\ Last(processorCache').pipe = Request.pipe
           /\ ~Request.hit =>
                 /\ gone \subseteq {e \in Entries(processorCache) :
                                      Len(processorCache) = MAX_CACHE_SIZE
                                        /\ e = Oldest(processorCache)}
                 /\ Entries(processorCache') \ Entries(processorCache)
                       \subseteq {Entry(k, Request.pipe, Len(calls'))}

\* the renders at their await with the configuration of the render entering
InFlightWith(c) ==
    {i \in Pending : IsRender(calls[i]) /\ calls[i].opts = c.opts}

\* C22 as stated: in every interleaving each cache operation is atomic (no
\* duplicate key, no more than MAX_CACHE_SIZE entries, no wrong eviction),
\* and two renders in flight together with the same cacheable configuration
\* cause one assembly and use the same pipeline instance.
C22_AtomicCacheOperations ==
    [][/\ WholeOperation
       /\ (Requested /\ IsRender(Request) /\ getCacheKey(Request.opts) /= NoKey) =>
             \A i \in InFlightWith(Request) :
                Request.pipe = calls[i].pipe /\ ~Request.assembled
    ]_vars

\* C22 amended: the two renders share one assembly when the entry of the
\* first is still stored as the second enters.
C22_AtomicCacheOperationsAmended ==
    [][/\ WholeOperation
       /\ (Requested /\ IsRender(Request) /\ getCacheKey(Request.opts) /= NoKey) =>
             \A i \in InFlightWith(Request) :
                StillStored(calls[i], processorCache) =>
                   (Request.pipe = calls[i].pipe /\ ~Request.assembled)
    ]_vars

\* C22's case: two renders of one configuration at their await together, at
\* a full cache, on one pipeline that the first of them assembled
C22_Witness ==
    \E i, j \in Pending :
       /\ i < j
       /\ calls[i].opts = calls[j].opts
       /\ calls[i].assembled /\ ~calls[j].assembled
       /\ calls[i].pipe = calls[j].pipe
       /\ Len(processorCache) = MAX_CACHE_SIZE

----------------------------------------------------------------------------
\* starry-night.ts: the lazily initialised engine and the three entry points
\* that await it before they call mod.ts.

MaxCallers == 2

MaxNightCalls == 3

Callers == 1..MaxCallers

\* what createStarryNight(common) resolves to, the n-th time it is invoked
Engine(n) == [id |-> n, grammars |-> "common"]

\* a getStarryNight that forgets the assignment of line 35
Unassigned(starryNightInstance, engine) == starryNightInstance

\* `starryNightInstance = await createStarryNight(common)`, once it resolved
Assigned(starryNightInstance, engine) == {engine}

\* a getStarryNight without the test of line 34
NeedsEngineAlways(starryNightInstance) == TRUE

\* `if (!starryNightInstance)`
NeedsEngine(starryNightInstance) == starryNightInstance = {}

InitNight ==
    /\ processorCache = <<>>
    /\ created = 0
    /\ calls = <<>>
    /\ warmed = 0
    /\ ops = 0
    /\ run = [pc |-> "night",
              starryNightInstance |-> {},
              createStarryNight |-> 0,
              begun |-> 0,
              callers |-> [c \in Callers |->
                              [at |-> "idle", kind |-> "none", starryNight |-> {}]],
              passed |-> <<>>]

\* render, renderWithMeta or warmup of starry-night.ts enters getStarryNight,
\* which runs to its first await: with no instance it has invoked
\* createStarryNight by then, with one it returns it
getStarryNight(c, kind) ==
    /\ run.callers[c].at = "idle"
    /\ run.begun < MaxNightCalls
    /\ run' = IF NeedsEngine(run.starryNightInstance)
                THEN [run EXCEPT !.begun = @ + 1,
                                 !.createStarryNight = @ + 1,
                                 !.callers[c] = [at |-> "creating", kind |-> kind,
                                                 starryNight |-> {Engine(run.createStarryNight + 1)}]]
                ELSE [run EXCEPT !.begun = @ + 1,
                                 !.callers[c] = [at |-> "returning", kind |-> kind,
                                                 starryNight |-> run.starryNightInstance]]
    /\ UNCHANGED <<processorCache, created, calls, warmed, ops>>

\* createStarryNight resolves for caller c: the assignment, then
\* `return starryNightInstance` with nothing in between
CreateResolves(c) ==
    /\ run.callers[c].at = "creating"
    /\ LET engine == CHOOSE e \in run.callers[c].starryNight : TRUE
           instance == Assigned(run.starryNightInstance, engine)
       IN run' = [run EXCEPT !.starryNightInstance = instance,
                             !.callers[c].at = "returning",
                             !.callers[c].starryNight = instance]
    /\ UNCHANGED <<processorCache, created, calls, warmed, ops>>

\* `const starryNight = await getStarryNight()` continues, and the entry
\* point calls mod.ts with highlighter: [rehypeStarryNight, { starryNight }]
CoreCall(c) ==
    /\ run.callers[c].at = "returning"
    /\ run' = [run EXCEPT !.callers[c] = [at |-> "idle", kind |-> "none", starryNight |-> {}],
                          !.passed = Append(@, [caller |-> c,
                                                kind |-> run.callers[c].kind,
                                                starryNight |-> run.callers[c].starryNight])]
    /\ UNCHANGED <<processorCache, created, calls, warmed, ops>>

NextNight ==
    \/ \E c \in Callers, kind \in {"render", "renderWithMeta", "warmup"} :
          getStarryNight(c, kind)
    \/ \E c \in Callers : CreateResolves(c)
    \/ \E c \in Callers : CoreCall(c)

SpecNight == InitNight /\ [][NextNight]_vars

\* the engines createStarryNight has resolved to so far
ReadyEngines ==
    {Engine(n) : n \in 1..run.createStarryNight} \
        UNION {run.callers[c].starryNight : c \in {d \in Callers : run.callers[d].at = "creating"}}

\* some entry point has just called mod.ts
Passing == Len(run'.passed) = Len(run.passed) + 1

\* C24: no call of the starry-night entry point reaches mod.ts with a null
\* or unfinished engine, starryNightInstance once set is never null again,
\* and every caller, racing or not, passes a ready engine with the same
\* grammars as every other caller's.
C24_EngineReady ==
    [][/\ run.starryNightInstance /= {} => run'.starryNightInstance /= {}
       /\ run'.starryNightInstance \subseteq ReadyEngines'
       /\ Passing =>
             LET given == Last(run'.passed).starryNight
             IN /\ given /= {}
                /\ given \subseteq ReadyEngines
                /\ \A i \in 1..Len(run.passed), e \in given :
                      \A f \in run.passed[i].starryNight : e.grammars = f.grammars
    ]_vars

\* C24's case: two callers that raced on the first initialisation have both
\* called mod.ts, each with an engine
C24_Witness ==
    /\ run.createStarryNight > 1
    /\ \E i, j \in 1..Len(run.passed) :
          /\ run.passed[i].caller /= run.passed[j].caller
          /\ run.passed[i].starryNight /= run.passed[j].starryNight
          /\ run.passed[i].starryNight /= {}
          /\ run.passed[j].starryNight /= {}

\* C25 as stated: getStarryNight initialises once and is guarded against
\* concurrent first calls, so createStarryNight is invoked at most once.
C25_InitializeOnce == run.createStarryNight <= 1

\* C25 amended: createStarryNight is invoked only by a call that finds no
\* instance, so never again once one is set, and at most once per call.
C25_InitializeOnceAmended ==
    [][/\ run'.createStarryNight > run.createStarryNight =>
             /\ run.starryNightInstance = {}
             /\ run'.createStarryNight = run.createStarryNight + 1
             /\ run'.begun = run.begun + 1
       /\ run.starryNightInstance /= {} =>
             run'.createStarryNight = run.createStarryNight
    ]_vars

\* C25's case: a call that found the instance set went on with it, after
\* racing first calls had each invoked createStarryNight
C25_Witness ==
    /\ run.createStarryNight > 1
    /\ run.begun > run.createStarryNight
    /\ \E c \in Callers :
          /\ run.callers[c].at = "returning"
          /\ run.callers[c].starryNight = run.starryNightInstance
          /\ \E e \in run.starryNightInstance : e.id < run.createStarryNight

----------------------------------------------------------------------------
\* parse.ts: the standalone extractors.  They parse the document themselves
\* and run no pipeline stage on it.

RECURSIVE HeadingsOf(_)
\* visit(mdast, "heading"): the heading nodes in document order
HeadingsOf(nodes) ==
    IF nodes = <<>> THEN <<>>
    ELSE (IF Head(nodes).type = "heading" THEN <<Head(nodes)>> ELSE <<>>)
         \o HeadingsOf(Head(nodes).kids) \o HeadingsOf(Tail(nodes))

RECURSIVE TocFrom(_, _)
\* the visitor of extractToc over the headings, threading the slugger
TocFrom(headings, occurrences) ==
    IF headings = <<>> THEN <<>>
    ELSE LET text == toString(Head(headings))
             r == slug(occurrences, text)
         IN <<TocEntry(text, Head(headings).depth, r.slug)>>
            \o TocFrom(Tail(headings), r.occurrences)

extractToc(doc) == TocFrom(HeadingsOf(doc), {})

parseFrontmatter(doc) ==
    LET i == FirstOfType(doc, "yaml") IN
    IF i = 0 THEN "null"
    ELSE LET r == parseYaml(doc[i].text[1]) IN
         IF r.threw THEN "null" ELSE r.value

----------------------------------------------------------------------------
\* Several renderWithMeta calls on one cached pipeline, their process() runs
\* interleaved between stages.  Each run has its own vfile (tree, data.toc,
\* data.frontmatter); the slugger of rehype-slug is one object for the whole
\* module, reset at the start of every run of the stage.

MaxMetaCalls == 2

\* the calls made: a document and the configuration it is rendered with
MetaInputs ==
    { [doc |-> <<Yaml("title: Hello"), Heading(1, <<"Hello">>)>>, opts |-> DefaultOpts],
      [doc |-> <<Heading(1, <<"Hello">>), Heading(1, <<"Hello">>)>>, opts |-> DefaultOpts],
      [doc |-> <<Heading(1, <<"$x$">>)>>, opts |-> With("math", math)],
      [doc |-> <<Heading(1, <<"$x$">>)>>, opts |-> With("math", doubleDollarMath)] }

MetaDocs == {in.doc : in \in MetaInputs}

\* the stage list of the pipeline createProcessor(opts) returns
MetaAssembled == [opts \in {in.opts : in \in MetaInputs} |-> Stages(opts)]

\* slugs.reset()
reset(occurrences) == {}

\* a stage of process() on the vfile ps, with the module's slugger
SharedStage(stage, ps, occurrences) ==
    IF stage.slot = "slug" /\ ~Failed(ps)
    THEN LET r == SlugNodes(ps.tree, reset(occurrences))
         IN [ps |-> [ps EXCEPT !.tree = r.nodes], occurrences |-> r.occurrences]
    ELSE [ps |-> ApplyStage(stage, ps), occurrences |-> occurrences]

InitMeta ==
    /\ processorCache = <<>>
    /\ created = 0
    /\ calls = <<>>
    /\ warmed = 0
    /\ ops = 0
    /\ run = [pc |-> "meta", occurrences |-> {}, flights |-> <<>>, extracted |-> <<>>]

\* renderWithMeta(doc, opts) up to `await processor.process(markdown)`
MetaCall(doc, opts) ==
    LET r == getProcessor(opts, processorCache, created, Len(run.flights) + 1) IN
    /\ Len(run.flights) < MaxMetaCalls
    /\ run.extracted = <<>>
    /\ processorCache' = r.cache
    /\ created' = IF r.assembled THEN created + 1 ELSE created
    /\ run' = [run EXCEPT !.flights =
                   Append(@, [doc |-> doc, opts |-> opts, pipe |-> r.pipe, hit |-> r.hit,
                              at |-> 1, ps |-> ProcessState(doc), result |-> {}])]
    /\ UNCHANGED <<calls, warmed, ops>>

\* the next stage of one of the runs in flight
MetaStage(i) ==
    LET f == run.flights[i]
        stages == MetaAssembled[f.pipe.opts]
    IN /\ f.result = {}
       /\ f.at <= Len(stages)
       /\ LET r == SharedStage(stages[f.at], f.ps, run.occurrences)
          IN run' = [run EXCEPT !.occurrences = r.occurrences,
                                !.flights[i].ps = r.ps,
                                !.flights[i].at = @ + 1]
       /\ UNCHANGED <<processorCache, created, calls, warmed, ops>>

\* process() resolved: renderWithMeta returns {html, toc, frontmatter}
MetaReturn(i) ==
    LET f == run.flights[i] IN
    /\ f.result = {}
    /\ f.at > Len(MetaAssembled[f.pipe.opts])
    /\ run' = [run EXCEPT !.flights[i].result = {RenderResult(f.ps)}]
    /\ UNCHANGED <<processorCache, created, calls, warmed, ops>>

\* extractToc(doc), once the calls made have returned
MetaExtract(doc) ==
    /\ Len(run.extracted) < MaxMetaCalls
    /\ \A i \in 1..Len(run.flights) : run.flights[i].result /= {}
    /\ run' = [run EXCEPT !.extracted = Append(@, [doc |-> doc, toc |-> extractToc(doc)])]
    /\ UNCHANGED <<processorCache, created, calls, warmed, ops>>

NextMeta ==
    \/ \E in \in MetaInputs : MetaCall(in.doc, in.opts)
    \/ \E i \in 1..Len(run.flights) : MetaStage(i)
    \/ \E i \in 1..Len(run.flights) : MetaReturn(i)
    \/ \E doc \in MetaDocs : MetaExtract(doc)

SpecMeta == InitMeta /\ [][NextMeta]_vars

\* what renderWithMeta returns for the document when nothing else runs
Alone == [in \in MetaInputs |-> RenderResult(process(MetaAssembled[in.opts], in.doc))]

\* the texts of the headings of a document
OwnHeadings(doc) == {toString(h) : h \in {HeadingsOf(doc)[k] : k \in 1..Len(HeadingsOf(doc))}}

----------------------------------------------------------------------------
\* One renderWithMeta call on an empty cache, its pipeline stepped stage by
\* stage, followed by the standalone extractors on the same document.

\* the top-level nodes documents are made of
NodeKinds ==
    { Yaml("title: Hello"), Yaml("title: [bad"), Yaml(""),
      Heading(1, <<"Hello">>), Heading(2, <<"Hello", ":wave:">>),
      Html("ScRiPt", {}, <<"alert(1)">>),
      Html("a", {<<"onclick", <<"alert(1)">>>>, <<"href", <<"javascript:", "alert(1)">>>>},
           <<"x">>),
      Html("h2", {}, <<"Raw">>),
      Paragraph(<<"$x$">>),
      Code("js", <<"const", "x", "\n">>) }

Docs == UNION {[1..n -> NodeKinds] : n \in 0..MaxNodes}

\* the configurations the call is made with
PipeOpts ==
    { DefaultOpts,
      With("allowEmoji", FALSE),
      With("math", math),
      With("math", scriptMath),
      [With("highlighter", lowlightPlugin) EXCEPT !.lineNumbers = Some(TRUE)],
      [With("inline", TRUE) EXCEPT !.baseUrl = Some(docsUrl)],
      With("disableHtmlSanitization", TRUE),
      [With("remarkPlugins", <<noopPlugin, emptyTreePlugin>>)
          EXCEPT !.rehypePlugins = Some(<<insertScript, noopPlugin>>)],
      With("rehypePlugins", <<insertScript>>),
      With("remarkPlugins", <<throwingRemark>>) }

\* the stage list of the pipeline createProcessor(opts) returns
Assembled == [opts \in PipeOpts |-> Stages(opts)]

Run(pc, doc, pipe, at, ps, ran, result, toc, frontmatter) ==
    [ pc |-> pc, doc |-> doc, pipe |-> pipe, at |-> at, ps |-> ps, ran |-> ran,
      result |-> result, toc |-> toc, frontmatter |-> frontmatter ]

NoResult == [html |-> <<>>, toc |-> <<>>, frontmatter |-> "null"]

InitPipe ==
    /\ processorCache = <<>>
    /\ created = 0
    /\ calls = <<>>
    /\ warmed = 0
    /\ ops = 0
    /\ \E doc \in Docs :
          run = Run("called", doc, NoPipeline, 0, ProcessState(doc), <<>>, NoResult,
                    Undefined, Undefined)

\* renderWithMeta(doc, opts): `const processor = getProcessor(opts)`
Assemble(opts) ==
    LET r == getProcessor(opts, processorCache, created, 1) IN
    /\ run.pc = "called"
    /\ processorCache' = r.cache
    /\ created' = created + 1
    /\ run' = IF r.error /= NoError
              THEN [run EXCEPT !.pc = "threw", !.ps.error = r.error]
              ELSE [run EXCEPT !.pc = "processing", !.pipe = r.pipe, !.at = 1]
    /\ UNCHANGED <<calls, warmed, ops>>

\* processor.process: the next stage's transformer runs
RunStage ==
    /\ run.pc = "processing" /\ ~Failed(run.ps)
    /\ run.at <= Len(Assembled[run.pipe.opts])
    /\ LET stage == Assembled[run.pipe.opts][run.at] IN
       run' = [run EXCEPT !.ps = ApplyStage(stage, run.ps), !.at = @ + 1,
                          !.ran = Append(@, stage.slot)]
    /\ UNCHANGED <<processorCache, created, calls, warmed, ops>>

\* a transformer threw: process() rejects and so does renderWithMeta
Reject ==
    /\ run.pc = "processing" /\ Failed(run.ps)
    /\ run' = [run EXCEPT !.pc = "threw"]
    /\ UNCHANGED <<processorCache, created, calls, warmed, ops>>

\* the last stage has run: renderWithMeta returns {html, toc, frontmatter}
Return ==
    /\ run.pc = "processing" /\ ~Failed(run.ps)
    /\ run.at > Len(Assembled[run.pipe.opts])
    /\ run' = [run EXCEPT !.pc = "returned", !.result = RenderResult(run.ps)]
    /\ UNCHANGED <<processorCache, created, calls, warmed, ops>>

\* extractToc(doc), called on the same document
ExtractToc ==
    /\ run.pc \in {"returned", "threw"} /\ run.toc = Undefined
    /\ run' = [run EXCEPT !.toc = Some(extractToc(run.doc))]
    /\ UNCHANGED <<processorCache, created, calls, warmed, ops>>

\* parseFrontmatter(doc), called on the same document
ParseFrontmatter ==
    /\ run.pc \in {"returned", "threw"} /\ run.toc /= Undefined
    /\ run.frontmatter = Undefined
    /\ run' = [run EXCEPT !.frontmatter = Some(parseFrontmatter(run.doc))]
    /\ UNCHANGED <<processorCache, created, calls, warmed, ops>>

NextPipe ==
    \/ \E opts \in PipeOpts : Assemble(opts)
    \/ RunStage
    \/ Reject
    \/ Return
    \/ ExtractToc
    \/ ParseFrontmatter

SpecPipe == InitPipe /\ [][NextPipe]_vars

----------------------------------------------------------------------------
\* Properties of the pipeline specification.

\* the names of event-handler attributes: on*
HandlerNames == {"onclick", "onerror", "onload"}

RECURSIVE Unsafe(_)
\* some element is a script, carries an on* attribute, or has a
\* javascript: / vbscript: URL for the value of an attribute
Unsafe(nodes) ==
    \E i \in 1..Len(nodes) :
       \/ nodes[i].type = "raw"
       \/ /\ nodes[i].type = "element"
          /\ \/ nodes[i].tag = "script"
             \/ \E q \in nodes[i].props :
                   \/ q[1] \in HandlerNames
                   \/ (q[2] /= <<>> /\ q[2][1] \in {"javascript:", "vbscript:"})
       \/ Unsafe(nodes[i].kids)

\* the slots of the stages of the run's pipeline
Slots == [i \in 1..Len(Assembled[run.pipe.opts]) |-> Assembled[run.pipe.opts][i].slot]

\* C1: in every configuration that does not set disableHtmlSanitization the
\* sanitization stage comes after every caller-supplied rehype plugin and is
\* followed by inline unwrap and serialization only, and the html returned
\* for any document has no script element, no on* attribute and no
\* javascript: / vbscript: URL.
C1_SanitizedOutput ==
    (run.pc = "returned" /\ ~Truthy(run.pipe.opts.disableHtmlSanitization)) =>
        /\ \E i \in 1..Len(Slots) :
              /\ Slots[i] = "sanitize"
              /\ \A j \in 1..Len(Slots) :
                    (j > i) <=> (Slots[j] \in {"unwrap", "stringify"})
        /\ ~Unsafe(run.result.html)

\* the backbone: every slot a pipeline can have, in the required order
Backbone ==
    << "parse", "gfm", "frontmatter", "extractFrontmatter", "emoji", "mathParse",
       "remarkPlugins", "toHast", "raw", "alerts", "slug", "toc", "autolink",
       "resolveUrls", "highlighter", "mathRender", "codeBlocks", "lineNumbers",
       "rehypePlugins", "sanitize", "unwrap", "stringify" >>

Rank(slot) == CHOOSE i \in 1..Len(Backbone) : Backbone[i] = slot

\* the option that decides whether a slot is in the pipeline
Wanted(slot, opts) ==
    CASE slot = "emoji" -> opts.allowEmoji /= Some(FALSE)
      [] slot \in {"mathParse", "mathRender"} -> opts.math /= Undefined
      [] slot = "highlighter" -> opts.highlighter /= Undefined
      [] slot = "lineNumbers" -> opts.lineNumbers = Some(TRUE)
      [] slot = "sanitize" -> opts.disableHtmlSanitization /= Some(TRUE)
      [] slot = "unwrap" -> opts.inline = Some(TRUE)
      [] slot = "remarkPlugins" -> OrElse(opts.remarkPlugins, <<>>) /= <<>>
      [] slot = "rehypePlugins" -> OrElse(opts.rehypePlugins, <<>>) /= <<>>
      [] OTHER -> TRUE

\* the plugins of the stages in a slot, in pipeline order
PluginsIn(stages, slot) ==
    LET in == SelectSeq(stages, LAMBDA st : st.slot = slot)
    IN [i \in 1..Len(in) |-> in[i].plugin]

\* the stages are backbone slots in backbone order, only the caller's
\* plugins sharing a slot; a slot is there exactly when its option asks for
\* it; the plugins the options carry are in their slots in the order given
InBackboneOrder(stages, opts) ==
    /\ \A i \in 1..Len(stages) : \E k \in 1..Len(Backbone) : Backbone[k] = stages[i].slot
    /\ \A i, j \in 1..Len(stages) :
          i < j => \/ Rank(stages[i].slot) < Rank(stages[j].slot)
                   \/ /\ stages[i].slot = stages[j].slot
                      /\ stages[i].slot \in {"remarkPlugins", "rehypePlugins"}
    /\ \A k \in 1..Len(Backbone) :
          Wanted(Backbone[k], opts) <=> \E i \in 1..Len(stages) : stages[i].slot = Backbone[k]
    /\ PluginsIn(stages, "remarkPlugins") = OrElse(opts.remarkPlugins, <<>>)
    /\ PluginsIn(stages, "rehypePlugins") = OrElse(opts.rehypePlugins, <<>>)
    /\ opts.math /= Undefined =>
          /\ PluginsIn(stages, "mathParse") = <<Get(opts.math).remarkPlugin>>
          /\ PluginsIn(stages, "mathRender") = <<Get(opts.math).rehypePlugin>>
    /\ opts.highlighter /= Undefined =>
          PluginsIn(stages, "highlighter") = <<Get(opts.highlighter)>>

\* whether the pipeline of each configuration is in backbone order
Ordered == [opts \in PipeOpts |-> InBackboneOrder(Assembled[opts], opts)]

\* C6: the pipeline createProcessor assembles has its stages in the backbone
\* order; an optional stage is there exactly when its option asks for it; the
\* caller's remark plugins and rehype plugins are there in the order given,
\* the remark ones before the rehype ones; and process() runs the stages in
\* that order.
C6_BackboneOrder ==
    run.pc \in {"processing", "returned"} =>
        /\ Ordered[run.pipe.opts]
        /\ Len(run.ran) = run.at - 1
        /\ \A i \in 1..Len(run.ran) : run.ran[i] = Assembled[run.pipe.opts][i].slot

\* C6's case: a pipeline with two remark plugins and two rehype plugins of
\* the caller has run to the end
C6_Witness ==
    /\ run.pc = "returned"
    /\ Len(OrElse(run.pipe.opts.remarkPlugins, <<>>)) = 2
    /\ Len(OrElse(run.pipe.opts.rehypePlugins, <<>>)) = 2
    /\ Len(run.ran) = Len(Assembled[run.pipe.opts])
    /\ run.doc /= <<>>

\* C9: for every document and configuration, the toc renderWithMeta returns
\* equals what extractToc returns for the document: as many entries, each
\* with the same text, depth and slug.
C9_TocMatchesExtractToc ==
    (run.pc = "returned" /\ run.toc /= Undefined) =>
        /\ Len(run.result.toc) = Len(Get(run.toc))
        /\ \A i \in 1..Len(run.result.toc) :
              /\ run.result.toc[i].text = Get(run.toc)[i].text
              /\ run.result.toc[i].depth = Get(run.toc)[i].depth
              /\ run.result.toc[i].slug = Get(run.toc)[i].slug

\* the top-level YAML blocks of a document
YamlBlocks(doc) == SelectSeq(doc, LAMBDA n : n.type = "yaml")

\* the document's frontmatter as C10 defines it: the value of the first YAML
\* block, null when there is none or when it is empty or malformed
FirstBlockValue(doc) ==
    IF YamlBlocks(doc) = <<>> THEN "null"
    ELSE LET y == parseYaml(YamlBlocks(doc)[1].text[1]) IN
         IF y.threw THEN "null" ELSE y.value

\* C10: the frontmatter renderWithMeta returns equals what parseFrontmatter
\* returns for the document, and both are the parsed value of the first
\* top-level YAML block only, null when there is none or the first is empty or
\* malformed; a malformed block never makes the render throw.
C10_FrontmatterFirstBlock ==
    /\ (run.pc = "returned" /\ run.frontmatter /= Undefined) =>
          /\ run.result.frontmatter = Get(run.frontmatter)
          /\ run.result.frontmatter = FirstBlockValue(run.doc)
    /\ run.pc = "threw" => PluginErrors(run.pipe.opts) /= <<>>

\* C10's case: the first YAML block is malformed and a well-formed one
\* follows; the render returned and both results are null
C10_Witness ==
    /\ run.pc = "returned" /\ run.frontmatter = Some("null")
    /\ run.doc = <<Yaml("title: [bad"), Yaml("title: Hello")>>
    /\ run.result.frontmatter = "null"

----------------------------------------------------------------------------
\* buildSchema on its own: a schema is built for a configuration and the
\* sanitizer is run with it on one element.

\* the configurations a schema is built for
SchemaOpts ==
    { DefaultOpts,
      With("allowIframes", TRUE),
      With("allowIframes", FALSE),
      With("math", math),
      [With("math", math) EXCEPT !.allowIframes = Some(TRUE)],
      With("math", scriptMath),
      With("math", frameMath),
      [With("lineNumbers", TRUE) EXCEPT !.inline = Some(TRUE)] }

\* the elements the sanitizer is tried on
Probes ==
    { Element("script", {}, <<Text(<<"alert(1)">>)>>),
      Element("style", {}, <<Text(<<"body{}">>)>>),
      Element("iframe", {<<"src", <<"https://", "example.com">>>>, <<"width", <<"560">>>>,
                         <<"height", <<"315">>>>, <<"frameBorder", <<"0">>>>}, <<>>),
      Element("iframe", {<<"srcdoc", <<"<script>alert(1)</script>">>>>}, <<>>),
      Element("iframe", {<<"src", <<"javascript:", "alert(1)">>>>,
                         <<"onload", <<"alert(1)">>>>}, <<>>),
      Element("a", {<<"href", <<"https://", "example.com">>>>, <<"onclick", <<"alert(1)">>>>},
              <<Text(<<"x">>)>>),
      Element("a", {<<"href", <<"javascript:", "alert(1)">>>>}, <<Text(<<"x">>)>>),
      Element("img", {<<"src", <<"https://", "example.com">>>>, <<"alt", <<"logo">>>>,
                      <<"onerror", <<"alert(1)">>>>}, <<>>),
      Element("input", {<<"type", <<"checkbox">>>>, <<"disabled", <<"">>>>}, <<>>),
      Element("code", {<<"className", <<"language-", "js">>>>}, <<Text(<<"x">>)>>),
      Element("span", {<<"className", <<"katex">>>>, <<"style", <<"color:red">>>>},
              <<Text(<<"x">>)>>),
      Element("math", {<<"xmlns", <<"http://", "www.w3.org">>>>},
              <<Element("mi", {}, <<Text(<<"x">>)>>)>>),
      Element("p", {<<"title", <<"t">>>>, <<"align", <<"left">>>>}, <<Text(<<"x">>)>>),
      Element("div", {}, <<Element("iframe", {<<"srcdoc", <<"x">>>>}, <<>>)>>) }

InitSchema ==
    /\ processorCache = <<>>
    /\ created = 0
    /\ calls = <<>>
    /\ warmed = 0
    /\ ops = 0
    /\ run = [pc |-> "idle"]

\* buildSchema(opts)
BuildSchema(opts) ==
    /\ run.pc = "idle"
    /\ run' = [pc |-> "built", opts |-> opts, schema |-> buildSchema(opts)]
    /\ UNCHANGED <<processorCache, created, calls, warmed, ops>>

\* rehypeSanitize with the schema built, on a tree of one element
Sanitize(probe) ==
    /\ run.pc = "built"
    /\ run' = [pc |-> "sanitized", opts |-> run.opts, schema |-> run.schema,
               probe |-> probe, out |-> sanitize(<<probe>>, run.schema)]
    /\ UNCHANGED <<processorCache, created, calls, warmed, ops>>

NextSchema ==
    \/ \E opts \in SchemaOpts : BuildSchema(opts)
    \/ \E probe \in Probes : Sanitize(probe)

SpecSchema == InitSchema /\ [][NextSchema]_vars

\* the pattern p accepts every value the pattern q accepts
Wider(p, q) ==
    \/ p = q
    \/ /\ p.more = "any"
       /\ Len(p.prefix) <= Len(q.prefix)
       /\ SubSeq(q.prefix, 1, Len(p.prefix)) = p.prefix

\* C11: for every configuration, any math bundle included, the schema of
\* buildSchema allows neither the script nor the style tag and no on*
\* attribute on any tag, and allows every tag and every attribute value the
\* default schema allows.
C11_SchemaBaseline ==
    run.pc \in {"built", "sanitized"} =>
        /\ "script" \notin run.schema.tagNames
        /\ "style" \notin run.schema.tagNames
        /\ \A a \in run.schema.attributes : a[2] \notin HandlerNames
        /\ defaultSchema.tagNames \subseteq run.schema.tagNames
        /\ \A d \in defaultSchema.attributes :
              \E a \in run.schema.attributes :
                 a[1] = d[1] /\ a[2] = d[2] /\ Wider(a[3], d[3])
        /\ defaultSchema.protocols = run.schema.protocols

RECURSIVE HasSrcdoc(_)
\* some iframe in the tree carries srcdoc
HasSrcdoc(nodes) ==
    \E i \in 1..Len(nodes) :
       \/ (nodes[i].type = "element" /\ nodes[i].tag = "iframe"
             /\ Prop(nodes[i], "srcdoc") /= {})
       \/ HasSrcdoc(nodes[i].kids)

\* C12: the schema allows the iframe tag exactly when allowIframes is set,
\* then with the attributes src, width, height and frameBorder for the tag and
\* no other; srcdoc on iframe is allowed under no configuration and is in no
\* sanitized output.
C12_IframeOnlyWhenAllowed ==
    /\ run.pc \in {"built", "sanitized"} =>
          /\ ("iframe" \in run.schema.tagNames) <=> Truthy(run.opts.allowIframes)
          /\ Truthy(run.opts.allowIframes) =>
                {a[2] : a \in {b \in run.schema.attributes : b[1] = "iframe"}}
                   = {"src", "width", "height", "frameBorder"}
          /\ \A a \in run.schema.attributes : ~(a[1] \in {"iframe", "*"} /\ a[2] = "srcdoc")
    /\ run.pc = "sanitized" => ~HasSrcdoc(run.out)

----------------------------------------------------------------------------
\* The transforms one at a time: each action applies one transform of the
\* pipeline (or resolveUrl, or extractToc) to one input.

\* URLs an attribute of a document can carry
StageUrls ==
    { <<>>, <<"./", "page.md">>, <<"page.md">>, <<"../", "page.md">>,
      <<"img", "/", "logo.png">>, <<"/", "absolute", "/", "path">>, <<"/", "absolute">>,
      <<"?", "q">>, <<"https://", "other.com">>, <<"http://", "other.com">>,
      <<"//", "cdn.com">>, <<"#", "section">>, <<"data:", "x">>,
      <<"mailto:", "a@b">>, <<"tel:", "1">>, <<"javascript:", "alert(1)">> }

\* base URLs validateBaseUrl accepts; the last two parse but cannot be a base
StageBases ==
    { docsUrl, docsUrlSlash, <<"https://", "example.com">>,
      <<"http://", "example.com", "/">>, <<"mailto:", "a@b">>, <<"data:", "x">> }

InitStage ==
    /\ processorCache = <<>>
    /\ created = 0
    /\ calls = <<>>
    /\ warmed = 0
    /\ ops = 0
    /\ run = [pc |-> "idle"]

\* resolveUrl(url, baseUrl)
ResolveUrl(url, baseUrl) ==
    /\ run.pc = "idle"
    /\ run' = [pc |-> "resolved", url |-> url, base |-> baseUrl,
               resolved |-> resolveUrl(url, baseUrl)]
    /\ UNCHANGED <<processorCache, created, calls, warmed, ops>>

\* trees of one element carrying a URL in href or src, inside a div
LinkTrees ==
    LET Link(tag, attr, url) ==
            <<Element("div", {<<"title", <<"t">>>>},
                      <<Element(tag, {<<attr, url>>, <<"title", <<"t">>>>}, <<>>)>>)>>
    IN { Link(l[1], l[2], l[3]) :
           l \in {"a", "img", "video", "audio", "source", "link", "iframe", "div"}
                    \X {"href", "src"} \X StageUrls }

\* the baseUrl option: absent, "", a base, a URL that parses but is no base
LinkBases == {Undefined, Some(emptyUrl), Some(docsUrlSlash), Some(<<"mailto:", "a@b">>)}

\* the transformer of rehypeResolveUrls on a tree
ResolveUrls(tree, baseUrl) ==
    /\ run.pc = "idle"
    /\ run' = [pc |-> "urls", tree |-> tree, baseUrl |-> baseUrl,
               out |-> rehypeResolveUrls(tree, baseUrl)]
    /\ UNCHANGED <<processorCache, created, calls, warmed, ops>>

\* trees of the elements around code blocks: fenced blocks with a language,
\* without one and with the class "language-", a pre without code, a pre
\* inside a pre, a paragraph, a quote holding a block
CodeTrees ==
    LET code(lang) == Element("code", IF lang = <<>> THEN {} ELSE {<<"className", lang>>},
                              <<Text(<<"x", "\n">>)>>)
        pre(kids) == Element("pre", {}, kids)
        nodes ==
          { pre(<<code(<<"language-", "js">>)>>),
            pre(<<code(<<>>)>>),
            pre(<<code(<<"language-", "">>)>>),
            pre(<<Text(<<"x">>)>>),
            pre(<<Text(<<"x">>), code(<<"language-", "js">>), code(<<>>)>>),
            pre(<<code(<<>>), pre(<<code(<<"language-", "js">>)>>)>>),
            pre(<<pre(<<code(<<"language-", "js">>)>>)>>),
            Element("p", {}, <<Text(<<"x">>)>>),
            Element("blockquote", {}, <<pre(<<code(<<"language-", "js">>)>>),
                                       Element("p", {}, <<Text(<<"x">>)>>)>>) }
    IN UNION {[1..n -> nodes] : n \in 0..MaxNodes}

\* the transformer of rehypeCodeBlocks on a tree
CodeBlocks(tree) ==
    /\ run.pc = "idle"
    /\ run' = [pc |-> "wrapped", tree |-> tree, out |-> rehypeCodeBlocks(tree)]
    /\ UNCHANGED <<processorCache, created, calls, warmed, ops>>

\* trees of code blocks as the line-numbering stage meets them: plain and
\* highlighted code of zero to three lines, wrapped by rehypeCodeBlocks or
\* not, a pre with two code children, a pre inside a pre, a comment span of
\* two lines with a tag span inside, a paragraph
LineTrees ==
    LET code(kids) == Element("code", {<<"className", <<"language-", "js">>>>}, kids)
        pre(kids) == Element("pre", {}, kids)
        k(tokens) == Element("span", {<<"className", <<"pl-", "k">>>>}, <<Text(tokens)>>)
        nodes ==
          { pre(<<code(<<>>)>>),
            pre(<<code(<<Text(<<"a", "\n">>)>>)>>),
            pre(<<code(<<Text(<<"a", "\n", "b", "\n">>)>>)>>),
            pre(<<code(<<Text(<<"a", "\n", "\n", "b", "\n">>)>>)>>),
            pre(<<code(<<Text(<<"a">>)>>)>>),
            pre(<<code(<<k(<<"a">>), Text(<<"\n", "b", "\n">>)>>)>>),
            pre(<<code(<<k(<<"a", "\n", "b">>), Text(<<"\n">>)>>)>>),
            pre(<<code(<<Text(<<"a", "\n">>), k(<<"b", "\n">>)>>)>>),
            Element("div", {<<"className", <<"highlight">>>>},
                    <<pre(<<code(<<Text(<<"a", "\n", "b", "\n">>)>>)>>)>>),
            pre(<<code(<<Text(<<"a", "\n">>)>>), code(<<Text(<<"b", "\n">>)>>)>>),
            pre(<<code(<<Text(<<"a", "\n">>)>>), pre(<<code(<<Text(<<"b", "\n">>)>>)>>)>>),
            pre(<<Text(<<"a", "\n">>)>>),
            pre(<<code(<<Element("span", {<<"className", <<"hljs-", "comment">>>>},
                                 <<Text(<<"a", "\n">>),
                                   Element("span", {<<"className", <<"hljs-", "doctag">>>>},
                                           <<Text(<<"b">>)>>)>>),
                         Text(<<"\n">>)>>)>>),
            Element("p", {}, <<Text(<<"a">>)>>) }
    IN UNION {[1..n -> nodes] : n \in 0..MaxNodes}

\* the line-numbering stage as createProcessor installs it for the
\* lineNumbers option, and the sanitizer that follows it
LineNumbers(tree, lineNumbers) ==
    LET opts == [DefaultOpts EXCEPT !.lineNumbers = lineNumbers]
        stages == Stages(opts)
        only(slot) == SelectSeq(stages, LAMBDA st : st.slot = slot)
    IN /\ run.pc = "idle"
       /\ run' = [pc |-> "numbered", tree |-> tree, lineNumbers |-> lineNumbers,
                  lined |-> RunFrom(only("lineNumbers"), 1, ProcessState(tree)).tree,
                  out |-> RunFrom(only("lineNumbers") \o only("sanitize"), 1,
                                  ProcessState(tree)).tree]
       /\ UNCHANGED <<processorCache, created, calls, warmed, ops>>

\* trees of paragraphs: plain, empty, with inline marks, a p inside a p,
\* paragraphs under a quote and under a list item, and other blocks
ParagraphTrees ==
    LET par(kids) == Element("p", {}, kids)
        em == Element("em", {}, <<Text(<<"e">>)>>)
        nodes ==
          { par(<<Text(<<"x">>)>>),
            par(<<>>),
            par(<<Text(<<"x">>), em, Text(<<"y">>)>>),
            par(<<par(<<Text(<<"x">>)>>), Text(<<"y">>)>>),
            par(<<Text(<<"x">>), par(<<>>), par(<<par(<<em>>)>>)>>),
            Element("blockquote", {}, <<par(<<Text(<<"x">>)>>), par(<<em>>)>>),
            Element("ul", {}, <<Element("li", {}, <<par(<<Text(<<"x">>)>>)>>)>>),
            Element("div", {}, <<par(<<par(<<>>)>>), em>>),
            Element("h1", {<<"id", <<"x">>>>}, <<Text(<<"x">>)>>),
            Text(<<"z">>) }
    IN UNION {[1..n -> nodes] : n \in 0..MaxNodes}

\* the transformer of rehypeUnwrapParagraphs on a tree
UnwrapParagraphs(tree) ==
    /\ run.pc = "idle"
    /\ run' = [pc |-> "unwrapped", tree |-> tree, out |-> rehypeUnwrapParagraphs(tree)]
    /\ UNCHANGED <<processorCache, created, calls, warmed, ops>>

MaxHeadings == 3

\* documents of headings whose texts repeat and collide once slugged
\* ("Test-1" and "Test 1" both give "test-1"), and of paragraphs
HeadingDocs ==
    LET nodes == { Heading(1, <<"Test">>), Heading(2, <<"Test">>),
                   Heading(2, <<"Test-1">>), Heading(3, <<"Test", "1">>),
                   Heading(1, <<"Hello">>), Heading(1, <<"U+1F44B">>),
                   Paragraph(<<"Test">>) }
    IN UNION {[1..n -> nodes] : n \in 0..MaxHeadings}

\* extractToc(markdown)
Slugs(doc) ==
    /\ run.pc = "idle"
    /\ run' = [pc |-> "toc", doc |-> doc, toc |-> extractToc(doc)]
    /\ UNCHANGED <<processorCache, created, calls, warmed, ops>>

\* documents of headings (plain, one whose text is an emoji shortcode only,
\* raw HTML ones with an id of their own and with a script inside) and of
\* paragraphs that call footnotes
IdDocs ==
    LET nodes == { Heading(1, <<"Hello">>),
                   Heading(2, <<":wave:">>),
                   Html("h2", {<<"id", <<"x">>>>}, <<"Raw">>),
                   [Html("h3", {}, <<"Hi">>) EXCEPT
                       !.kids = <<Html("ScRiPt", {}, <<"alert(1)">>)>>],
                   Node("paragraph", "", 0, {}, <<>>,
                        <<Text(<<"Text">>), Node("footnoteReference", "1", 0, {}, <<>>, <<>>)>>),
                   Node("paragraph", "", 0, {}, <<>>,
                        <<Node("footnoteReference", "2", 0, {}, <<>>, <<>>)>>) }
    IN UNION {[1..n -> nodes] : n \in 0..MaxNodes}

\* configurations with sanitization on and no custom plugin
IdOpts ==
    { DefaultOpts, With("allowEmoji", FALSE), With("baseUrl", docsUrl),
      With("inline", TRUE) }

\* processor.process(doc) of the pipeline for opts: the tree rehypeSlug
\* leaves, the toc of renderWithMeta and the tree that is serialised
HeadingIds(doc, opts) ==
    LET stages == Stages(opts)
        at == CHOOSE i \in 1..Len(stages) : stages[i].slot = "slug"
        ps == process(stages, doc)
    IN /\ run.pc = "idle"
       /\ run' = [pc |-> "ids", doc |-> doc, opts |-> opts,
                  slugged |-> RunFrom(SubSeq(stages, 1, at), 1, ProcessState(doc)).tree,
                  toc |-> RenderResult(ps).toc,
                  final |-> ps.tree]
       /\ UNCHANGED <<processorCache, created, calls, warmed, ops>>

NextStage ==
    \/ \E doc \in IdDocs, opts \in IdOpts : HeadingIds(doc, opts)
    \/ \E url \in StageUrls, baseUrl \in StageBases : ResolveUrl(url, baseUrl)
    \/ \E tree \in LinkTrees, baseUrl \in LinkBases : ResolveUrls(tree, baseUrl)
    \/ \E tree \in CodeTrees : CodeBlocks(tree)
    \/ \E tree \in LineTrees, lineNumbers \in {Undefined, Some(TRUE), Some(FALSE)} :
          LineNumbers(tree, lineNumbers)
    \/ \E tree \in ParagraphTrees : UnwrapParagraphs(tree)
    \/ \E doc \in HeadingDocs : Slugs(doc)

SpecStage == InitStage /\ [][NextStage]_vars

\* a URL resolveUrl does not return at once
IsRelative(url) == url /= <<>> /\ url[1] \notin AbsolutePrefixes

\* C13: for a relative URL u and a valid base B, resolveUrl returns u
\* resolved against the origin of B alone when u starts with "/", and
\* otherwise u resolved against B with "/" appended when B lacks it, so that
\* "https://example.com/docs" and "https://example.com/docs/" give the same
\* result ("./page.md" gives "https://example.com/docs/page.md"); where
\* resolving fails, u is returned unchanged.
C13_ResolveUrl ==
    (run.pc = "resolved" /\ IsRelative(run.url) /\ UrlParses(run.base)) =>
        LET B == run.base
            dir == IF Last(B) = "/" THEN B ELSE B \o <<"/">>
        IN /\ (CanBeBase(B) /\ run.url[1] = "/") => run.resolved = <<B[1], B[2]>> \o run.url
           /\ (CanBeBase(B) /\ run.url[1] /= "/") =>
                 /\ run.resolved = Merge(dir, run.url)
                 /\ run.resolved = resolveUrl(run.url, dir)
                 /\ (run.url = <<"./", "page.md">> /\ B \in {docsUrl, docsUrlSlash}) =>
                       run.resolved = <<"https://", "example.com", "/", "docs", "/", "page.md">>
           /\ ~CanBeBase(B) => run.resolved = run.url

C13_Witness ==
    /\ run.pc = "resolved"
    /\ run.url = <<"./", "page.md">>
    /\ run.base = docsUrl
    /\ run.resolved = <<"https://", "example.com", "/", "docs", "/", "page.md">>

\* href of a, src of img, video, audio and source
Targeted(tag, name) ==
    \/ tag = "a" /\ name = "href"
    \/ tag \in {"img", "video", "audio", "source"} /\ name = "src"

\* `new URL(url, base).href` as resolveUrl asks for it, the URL itself where
\* that fails: the resolution of a URL taken as relative
AsRelative(url, B) ==
    LET dir == IF Last(B) = "/" THEN B ELSE B \o <<"/">> IN
    IF ~CanBeBase(dir) THEN url
    ELSE IF url /= <<>> /\ url[1] = "/" THEN <<B[1], B[2]>> \o url
    ELSE Merge(dir, url)

RECURSIVE OnlyUrlsChanged(_, _, _, _)
\* `after` is `before` but for the targeted attributes, whose value v is kept
\* when Kept(v) and is resolved as a relative URL otherwise
OnlyUrlsChanged(before, after, B, Kept) ==
    /\ Len(before) = Len(after)
    /\ \A i \in 1..Len(before) :
          LET b == before[i]
              a == after[i]
          IN /\ a.type = b.type /\ a.tag = b.tag /\ a.text = b.text /\ a.depth = b.depth
             /\ {pr[1] : pr \in a.props} = {pr[1] : pr \in b.props}
             /\ \A pr \in b.props :
                   IF b.type = "element" /\ Targeted(b.tag, pr[1]) /\ pr[2] \notin Kept
                   THEN <<pr[1], AsRelative(pr[2], B)>> \in a.props
                   ELSE pr \in a.props
             /\ OnlyUrlsChanged(b.kids, a.kids, B, Kept)

\* the URLs that start with one of the seven prefixes
Prefixed == {url \in StageUrls : url /= <<>> /\ url[1] \in AbsolutePrefixes}

\* C14 as stated: without baseUrl the transform changes nothing; with one
\* it changes only href of a and src of img, video, audio and source, keeps
\* a URL exactly when it starts with http://, https://, //, #, data:, mailto:
\* or tel:, and resolves every other URL as a relative one.
C14_ResolverFrame ==
    run.pc = "urls" =>
        IF run.baseUrl \in {Undefined, Some(emptyUrl)} THEN run.out = run.tree
        ELSE OnlyUrlsChanged(run.tree, run.out, Get(run.baseUrl), Prefixed)

\* C14 amended: the empty URL is kept as well.
C14_ResolverFrameAmended ==
    run.pc = "urls" =>
        IF run.baseUrl \in {Undefined, Some(emptyUrl)} THEN run.out = run.tree
        ELSE OnlyUrlsChanged(run.tree, run.out, Get(run.baseUrl), Prefixed \cup {<<>>})

C14_Witness ==
    /\ run.pc = "urls"
    /\ run.baseUrl = Some(docsUrlSlash)
    /\ \E n \in {run.tree[1].kids[1]} :
          /\ n.tag = "source"
          /\ Prop(n, "src") = {<<"./", "page.md">>}
    /\ Prop(run.out[1].kids[1], "src")
          = {<<"https://", "example.com", "/", "docs", "/", "page.md">>}
    /\ Prop(run.out[1], "title") = {<<"t">>}

\* the languages the language-* classes of a code element name
Languages(code) ==
    {q[2][2] : q \in {r \in code.props :
                        r[1] = "className" /\ Len(r[2]) = 2 /\ r[2][1] = "language-"}}
       \ {""}

\* a pre with a code child
IsCodeBlock(node) ==
    /\ node.type = "element" /\ node.tag = "pre"
    /\ \E i \in 1..Len(node.kids) :
          node.kids[i].type = "element" /\ node.kids[i].tag = "code"

\* `wrapper` is div.highlight holding the header the first code child of
\* `pre` asks for and then `pre` itself
WrapperOf(wrapper, pre) ==
    LET first == CHOOSE i \in 1..Len(pre.kids) :
                    /\ pre.kids[i].type = "element" /\ pre.kids[i].tag = "code"
                    /\ \A j \in 1..(i - 1) :
                          ~(pre.kids[j].type = "element" /\ pre.kids[j].tag = "code")
        langs == Languages(pre.kids[first])
    IN /\ wrapper.type = "element" /\ wrapper.tag = "div"
       /\ wrapper.props = {<<"className", <<"highlight">>>>}
       /\ IF langs = {}
          THEN wrapper.kids = <<pre>>
          ELSE /\ Len(wrapper.kids) = 2
               /\ wrapper.kids[2] = pre
               /\ \E lang \in langs :
                     wrapper.kids[1] =
                        Element("div", {<<"className", <<"code-header">>>>},
                           <<Element("span", {<<"className", <<"code-lang">>>>},
                                     <<Text(<<lang>>)>>)>>)

RECURSIVE Restructured(_, _)
\* every code block of `before` met from the top is a wrapper in `after` at
\* the same index; everything else is as it was
Restructured(before, after) ==
    /\ Len(before) = Len(after)
    /\ \A i \in 1..Len(before) :
          IF IsCodeBlock(before[i]) THEN WrapperOf(after[i], before[i])
          ELSE /\ [after[i] EXCEPT !.kids = <<>>] = [before[i] EXCEPT !.kids = <<>>]
               /\ Restructured(before[i].kids, after[i].kids)

RECURSIVE BareCodeBlock(_, _)
\* some code block of the tree is not the child its wrapper ends with
BareCodeBlock(nodes, inWrapper) ==
    \E i \in 1..Len(nodes) :
       \/ IsCodeBlock(nodes[i]) /\ ~(inWrapper /\ i = Len(nodes))
       \/ BareCodeBlock(nodes[i].kids,
                        nodes[i].type = "element" /\ nodes[i].tag = "div"
                          /\ nodes[i].props = {<<"className", <<"highlight">>>>})

\* C15 as stated: every pre with a code child is replaced, at its index, by
\* one div.highlight holding a div.code-header > span.code-lang exactly when
\* the code names a non-empty language, then the original pre unchanged; a
\* pre without a code child and the other children stay as they are.
C15_CodeBlockWrapper ==
    run.pc = "wrapped" =>
        /\ Restructured(run.tree, run.out)
        /\ ~BareCodeBlock(run.out, FALSE)

\* C15 amended: a pre inside a pre that was wrapped is not visited, and
\* stays as it is inside the original pre.
C15_CodeBlockWrapperAmended ==
    run.pc = "wrapped" => Restructured(run.tree, run.out)

C15_Witness ==
    /\ run.pc = "wrapped"
    /\ Len(run.tree) = 2
    /\ IsCodeBlock(run.tree[1]) /\ Languages(run.tree[1].kids[1]) = {"js"}
    /\ run.tree[2].tag = "p"
    /\ Len(run.out[1].kids) = 2
    /\ run.out[1].kids[2] = run.tree[1]
    /\ run.out[2] = run.tree[2]

IsLine(node) ==
    /\ node.type = "element" /\ node.tag = "span"
    /\ <<"className", <<"line">>>> \in node.props

\* the code element came out with one span.line per line of its text
LinesOk(code, result) ==
    LET text == toString(code)
        newlines == Cardinality({i \in 1..Len(text) : text[i] = "\n"})
    IN /\ \A i \in 1..Len(result.kids) : IsLine(result.kids[i])
       /\ text = <<>> => Len(result.kids) = 1
       /\ (text /= <<>> /\ Last(text) = "\n") => Len(result.kids) = newlines

RECURSIVE EveryCodeNumbered(_, _)
\* every code child of every pre, at any depth, came out in lines, and its
\* pre carries the marker
EveryCodeNumbered(before, after) ==
    /\ Len(before) = Len(after)
    /\ \A i \in 1..Len(before) :
          /\ Len(before[i].kids) = Len(after[i].kids)
          /\ IsCodeBlock(before[i]) =>
                /\ Prop(after[i], "dataLineNumbers") /= {}
                /\ \A j \in 1..Len(before[i].kids) :
                      (before[i].kids[j].type = "element" /\ before[i].kids[j].tag = "code")
                         => LinesOk(before[i].kids[j], after[i].kids[j])
          /\ IF IsCodeBlock(before[i])
             THEN EveryCodeNumbered(
                     SelectSeq(before[i].kids, LAMBDA n : n.tag /= "code"),
                     SelectSeq(after[i].kids, LAMBDA n : n.tag /= "code"))
             ELSE EveryCodeNumbered(before[i].kids, after[i].kids)

RECURSIVE VisitedCodeNumbered(_, _)
\* the first code child of every pre met from the top came out in lines, and
\* its pre carries the marker
VisitedCodeNumbered(before, after) ==
    /\ Len(before) = Len(after)
    /\ \A i \in 1..Len(before) :
          IF IsCodeBlock(before[i])
          THEN LET first == CHOOSE j \in 1..Len(before[i].kids) :
                               /\ before[i].kids[j].tag = "code"
                               /\ \A h \in 1..(j - 1) : before[i].kids[h].tag /= "code"
               IN /\ Prop(after[i], "dataLineNumbers") /= {}
                  /\ Len(before[i].kids) = Len(after[i].kids)
                  /\ LinesOk(before[i].kids[first], after[i].kids[first])
          ELSE VisitedCodeNumbered(before[i].kids, after[i].kids)

RECURSIVE NoLines(_)
\* neither a span.line nor the data-line-numbers marker in the tree
NoLines(nodes) ==
    \A i \in 1..Len(nodes) :
       /\ ~IsLine(nodes[i])
       /\ Prop(nodes[i], "dataLineNumbers") = {}
       /\ NoLines(nodes[i].kids)

RECURSIVE CodePairs(_, _, _)
\* the code elements of the pres of a tree, each with what it became: every
\* code child of every pre, or the first code child of the pres met from the
\* top
CodePairs(before, after, every) ==
    IF before = <<>> THEN {}
    ELSE LET b == Head(before)
             a == Head(after)
             rest(nodes) == SelectSeq(nodes, LAMBDA n : ~IsCode(n))
             here == IF IsCodeBlock(b)
                     THEN {<<b.kids[j], a.kids[j]>> :
                             j \in {i \in 1..Len(b.kids) :
                                      IsCode(b.kids[i]) /\ (every \/ i = CodeChildIndex(b))}}
                     ELSE {}
             below == IF IsCodeBlock(b)
                      THEN (IF every THEN CodePairs(rest(b.kids), rest(a.kids), every) ELSE {})
                      ELSE CodePairs(b.kids, a.kids, every)
         IN here \cup below \cup CodePairs(Tail(before), Tail(after), every)

\* the lines of a text: its segments, without the empty one after a final
\* newline
SourceLines(text) ==
    LET all == Split(text)
    IN IF Len(all) > 1 /\ all[Len(all)] = <<>> THEN SubSeq(all, 1, Len(all) - 1) ELSE all

\* the code came out as one span.line per source line, each holding the
\* line's text and then one newline text node, an empty line nothing else
LineByLine(code, result) ==
    LET lines == SourceLines(toString(code)) IN
    /\ Len(result.kids) = Len(lines)
    /\ \A i \in 1..Len(result.kids) :
          LET line == result.kids[i] IN
          /\ IsLine(line)
          /\ line.kids /= <<>>
          /\ Last(line.kids) = Text(<<"\n">>)
          /\ toString(line) = lines[i] \o <<"\n">>
          /\ lines[i] = <<>> => Len(line.kids) = 1

RECURSIVE Carried(_, _)
\* the classes carried over each piece of text: <<class, token>> for every
\* element above a text token other than a newline; `above` are the classes
\* of the elements the nodes are in
Carried(nodes, above) ==
    IF nodes = <<>> THEN {}
    ELSE LET n == Head(nodes)
             classes == above \cup (Prop(n, "className") \ {<<"line">>})
             here == IF n.type = "text"
                     THEN {<<c, n.text[i]>> :
                             c \in above, i \in {j \in 1..Len(n.text) : n.text[j] /= "\n"}}
                     ELSE Carried(n.kids, classes)
         IN here \cup Carried(Tail(nodes), above)

\* C29: line splitting loses no class: every class an element inside the
\* code carried over a piece of text before, the classes of nested spans
\* included, is carried over that text by an element after.
C29_ClassesKept ==
    (run.pc = "numbered" /\ Truthy(run.lineNumbers)) =>
        \A pair \in CodePairs(run.tree, run.lined, FALSE) :
           Carried(pair[1].kids, {}) \subseteq Carried(pair[2].kids, {})

IsP(node) == node.type = "element" /\ node.tag = "p"

RECURSIVE HasP(_)
\* a p element at some depth
HasP(nodes) == \E i \in 1..Len(nodes) : IsP(nodes[i]) \/ HasP(nodes[i].kids)

RECURSIVE Outline(_, _)
\* the nodes other than p in document order, each without its children and
\* with the number of its ancestors other than p: the tree that is left when
\* every p gives way to its children
Outline(nodes, level) ==
    IF nodes = <<>> THEN <<>>
    ELSE LET n == Head(nodes) IN
         (IF IsP(n) THEN Outline(n.kids, level)
          ELSE <<<<level, [n EXCEPT !.kids = <<>>]>>>> \o Outline(n.kids, level + 1))
         \o Outline(Tail(nodes), level)

\* C17: after the unwrap stage the tree holds no p at any depth; every p has
\* given way, in place, to its children, so the nodes other than p are the
\* same, in the same document order and under the same ancestors.
C17_NoParagraphLeft ==
    run.pc = "unwrapped" =>
        /\ ~HasP(run.out)
        /\ Outline(run.out, 0) = Outline(run.tree, 0)

C17_Witness ==
    /\ run.pc = "unwrapped"
    /\ Len(run.tree) = 2
    /\ IsP(run.tree[1]) /\ Len(run.tree[1].kids) = 3 /\ IsP(run.tree[1].kids[3])
    /\ run.tree[2].tag = "blockquote"
    /\ Len(run.out) = 3
    /\ run.out[3].tag = "blockquote" /\ Len(run.out[3].kids) = 2

\* the slugs "slug", "slug-1", ..., "slug-n"
Series(base, n) == {base} \cup {base \o "-" \o ToString(k) : k \in 1..n}

\* the entries of text `text` carry, in document order, slug, slug-1, ...
InSeries(toc, text) ==
    \A i \in 1..Len(toc) :
       toc[i].text = text =>
          LET earlier == Cardinality({j \in 1..(i - 1) : toc[j].text = text})
          IN toc[i].slug = IF earlier = 0 THEN SlugText(text)
                           ELSE SlugText(text) \o "-" \o ToString(earlier)

Distinct(toc) ==
    \A i, j \in 1..Len(toc) : i /= j => toc[i].slug /= toc[j].slug

\* C18 as stated: the slugs of one document are pairwise distinct, and
\* headings with the same text receive slug, slug-1, slug-2, ... in document
\* order.
C18_SlugsDistinct ==
    run.pc = "toc" =>
        /\ Distinct(run.toc)
        /\ \A i, j \in 1..Len(run.toc) :
              (i /= j /\ run.toc[i].text = run.toc[j].text)
                 => InSeries(run.toc, run.toc[i].text)

\* C18 amended: the series slug, slug-1, slug-2, ... is that of a text
\* none of whose slugs another text slugifies to or is given.
C18_SlugsDistinctAmended ==
    run.pc = "toc" =>
        /\ Distinct(run.toc)
        /\ \A i \in 1..Len(run.toc) :
              LET text == run.toc[i].text
                  series == Series(SlugText(text), Len(run.toc))
              IN (\A j \in 1..Len(run.toc) :
                     run.toc[j].text /= text =>
                        /\ SlugText(run.toc[j].text) \notin series
                        /\ run.toc[j].slug \notin series)
                 => InSeries(run.toc, text)

C18_Witness ==
    /\ run.pc = "toc"
    /\ Len(run.toc) = 3
    /\ \A i \in 1..3 : run.toc[i].text = <<"Test">>
    /\ [i \in 1..3 |-> run.toc[i].slug] = <<"test", "test-1", "test-2">>

----------------------------------------------------------------------------
\* A sequence of pipeline assemblies, each calling buildSchema.  The default
\* schema of rehype-sanitize and the bundle of math.ts are objects every call
\* shares; `schemas` are the objects the calls returned, as they are now.

MaxBuilds == 3

InitBuilds ==
    /\ processorCache = <<>>
    /\ created = 0
    /\ calls = <<>>
    /\ warmed = 0
    /\ ops = 0
    /\ run = [pc |-> "builds", defaultSchema |-> defaultSchema, math |-> math,
              schemas |-> <<>>]

\* buildSchema(opts): the clone, then the assignments on it.  The bundle is
\* only read (its arrays are spread or pushed onto arrays of the clone).
Build(opts) ==
    LET schema == structuredClone(run.defaultSchema)
        built == BuiltOn(schema.value, opts)
    IN /\ run.pc = "builds"
       /\ Len(run.schemas) < MaxBuilds
       /\ run' = [run EXCEPT
                     !.defaultSchema = IF schema.alias THEN built ELSE @,
                     !.schemas = Append(@, [opts |-> opts, schema |-> built])]
       /\ UNCHANGED <<processorCache, created, calls, warmed, ops>>

NextBuilds == \E opts \in SchemaOpts : Build(opts)

SpecBuilds == InitBuilds /\ [][NextBuilds]_vars

====
